---- MODULE Spec2Model ----
(***************************************************************************)
(* Consent / request-arbitration core of the wallet (ConsentService):      *)
(* the durable queue of consent requests, the registry of completion       *)
(* handles, admission, settlement, bulk clear and recovery on restart.     *)
(* Every async method is cut at its await points: one action per segment   *)
(* that runs without suspension on the single JavaScript thread.           *)
(***************************************************************************)
EXTENDS Integers, Sequences, FiniteSets, Bags, TLC

(* ---------------------------- bounds ---------------------------------- *)
MaxRequests == 2        \* admissions over a behaviour of Spec
MaxRestarts == 1        \* service-worker restarts in a behaviour of Spec
MaxConcurrent == 2      \* calls running (not parked on their promise) at once
SeqRequests == 3        \* admissions over a behaviour of SpecSeq
SeqRestarts == 1        \* service-worker restarts in a behaviour of SpecSeq
SurfaceRequests == 1    \* admissions over a behaviour of SpecSurface
MaxWindows == 1         \* approval windows ever created
DismissRequests == 2    \* admissions over a behaviour of SpecDismiss
DismissWindows == 2     \* approval windows ever created in SpecDismiss
DispatchRequests == 2   \* admissions over a behaviour of SpecDispatch
StartupRequests == 2    \* admissions over a behaviour of SpecStartup
StartupConcurrent == 3  \* calls running at once in SpecStartup

(* ---------------------------- constants of the program ---------------- *)
ConsentType ==
  {"unlock", "requestPermission", "transaction", "signMessage",
   "signTypedData", "watchAsset", "addNetwork", "switchNetwork"}

\* the types the admission gate checks for signing capability
SigningTypes == {"transaction", "signMessage", "signTypedData"}

\* the request types the bounded callers submit
RequestTypes == {"unlock", "transaction"}

\* NetworkKind of the network a networkId names
NetworkKind == {"evm", "aptos"}
\* TokenVisibility
TokenVisibility == {"unspecified", "show", "hide"}
\* Permission.ACCOUNT, and a permission name the switch of requestPermission
\* has no case for
PermissionAccount == "account"
PermissionOther == "other"

\* the ctx argument of requestConsent: omitted, with fromInternal set, and
\* without it
Contexts == {"none", "internal", "external"}

None == "none"
\* accountId: one account reference, or an ordered list of them
OneAccount == "account"
AccountList == "accounts"

\* what the dispatcher reads of a payload: whether it carries a (truthy)
\* signedTx, txHash or signature, the token of a WatchAssetPayload and the
\* permission names of a RequestPermissionPayload
Payload(signedTx, txHash, signature, token, permissions) ==
  [signedTx |-> signedTx, txHash |-> txHash, signature |-> signature,
   token |-> token, permissions |-> permissions]
\* a payload with none of them
PlainPayload == Payload(FALSE, FALSE, FALSE, None, <<>>)
\* SESSION_STORE.get of a key never written, and of a key holding the list q
NoValue == [present |-> FALSE, list |-> <<>>]
Stored(q) == [present |-> TRUE, list |-> q]
\* the id field of a request that has not been given one (Omit<.., 'id'>)
NoId == -1
\* ConsentRequest; networkId, accountId and origin are None when absent
ConsentRequest(id, type, networkId, accountId, origin, payload) ==
  [id |-> id, type |-> type, networkId |-> networkId, accountId |-> accountId,
   origin |-> origin, payload |-> payload]
\* no request
NoRequest == ConsentRequest(NoId, None, None, None, None, PlainPayload)
\* an UNLOCK request, which names no network, account or origin
UnlockRequest == ConsentRequest(NoId, "unlock", None, None, None, PlainPayload)
\* a TRANSACTION request of a site for a network of the kind networkId
TransactionRequest(networkId, accountId, payload) ==
  ConsentRequest(NoId, "transaction", networkId, accountId, "site", payload)
\* the requests the callers of Spec, SpecSeq, SpecSurface and SpecDismiss
\* submit: one per type of RequestTypes, a transaction with one account or
\* with a list
PlainRequests ==
  {UnlockRequest} \cup
  {TransactionRequest("evm", a, PlainPayload) : a \in {OneAccount, AccountList}}
\* const req = {...request, id: this.nextId++}
WithId(request, id) == [request EXCEPT !.id = id]
\* the id of a browser window that is not an approval surface
OtherWindow == 0

\* ethErrors.provider.userRejectedRequest()
UserRejected == [kind |-> "Error", msg |-> "User rejected the request."]
\* the values a collaborator can raise: an Error instance, a user-rejected
\* error of its own, a truthy primitive (a string), undefined/null, and
\* another falsy value (0, '')
FailureKinds == {"Error", "rejection", "primitive", "nullish", "falsy"}
Raised(kind) ==
  IF kind = "rejection" THEN UserRejected
  ELSE [kind |-> kind, msg |-> IF kind = "Error" THEN "failed" ELSE None]
\* the value of a variable never assigned, and of a function that returns nothing
Undefined == [kind |-> "nullish", msg |-> None]
\* a response of the dispatcher: the transaction response of the provider
Response == [kind |-> "object", msg |-> None]
\* {hash: txHash}
HashOnly == [kind |-> "hash", msg |-> None]
\* the signature a payload carries, and the one the provider returns
AttachedSignature == [kind |-> "attached", msg |-> None]
ProviderSignature == [kind |-> "signature", msg |-> None]
\* a failed assert(...), a TypeError for a property of undefined, and
\* ethErrors.rpc.invalidRequest('Token already exists')
AssertionError == [kind |-> "Error", msg |-> "assertion"]
TypeError == [kind |-> "Error", msg |-> "TypeError"]
InvalidRequest == [kind |-> "Error", msg |-> "Token already exists"]

(* ---------------------------- error objects --------------------------- *)
\* a property an object does not have
Absent == "absent"
\* a JavaScript object as the error envelope sees it: its prototype, the
\* message it inherits from the prototype chain (Absent for a plain
\* object), and its own properties message, stack, code and data (a numeric
\* code is written by its digits)
Object(proto, inherited, message, stack, code, data) ==
  [proto |-> proto, inherited |-> inherited,
   own |-> [message |-> message, stack |-> stack, code |-> code, data |-> data]]
\* the classes of the error objects raised: Error and a built-in subclass,
\* the EthereumProviderError of ethErrors, the AssertionError of assert, and
\* DOMException, whose message is an accessor of its prototype
ErrorClasses ==
  {"Error", "TypeError", "EthereumProviderError", "AssertionError",
   "DOMException"}
\* err instanceof Error
InstanceOfError(v) == v.proto \in ErrorClasses
\* v.message: the own property, else what the prototype chain gives
Message(v) == IF v.own.message # Absent THEN v.own.message ELSE v.inherited
\* 'message' in v
HasMessage(v) == Message(v) # Absent
\* the error objects a collaborator raises: new Error(), new Error(message)
\* and new TypeError(...) with or without a code and data set on them (the
\* message property is created only for a message that is given, and
\* Error.prototype.message is the empty string), the errors of ethErrors
\* and of assert, and a DOMException
RaisedErrors ==
  {Object(p, "", m, "stack", c, d) :
     p \in {"Error", "TypeError"}, m \in {Absent, "", "failed"},
     c \in {Absent, "4001", "CALL_EXCEPTION"}, d \in {Absent, "data"}}
  \cup {Object("EthereumProviderError", "", m, "stack", c, d) :
          m \in {"User rejected the request.", "Unauthorized"},
          c \in {"4001", "4100"}, d \in {Absent, "data"}}
  \cup {Object("AssertionError", "", m, "stack", "ERR_ASSERTION", Absent) :
          m \in {"assertion", "failed"}}
  \cup {Object("DOMException", "The operation failed", Absent, "stack", Absent,
                Absent)}
\* no error under way
NoEnvelope == [stage |-> None]

VARIABLES
  consentRequests,  \* this.consentRequests: sequence of ConsentRequest
  waits,            \* this.waits: the ids that have a [resolve, reject] entry
  nextId,           \* this.nextId
  initPc,           \* this.initPromise: "get" | "set" | "done" (resolved)
  store,            \* SESSION_STORE[CONSENT_REQUESTS]: NoValue or Stored(list)
  badge,            \* the text last given to setBadgeText
  rcCalls,          \* requestConsent calls in flight (bag of records)
  prCalls,          \* processRequest calls in flight (bag of records)
  clCalls,          \* clearRequests calls in flight (bag of records)
  grCalls,          \* getRequests calls in flight: how many await initPromise
  windows,          \* open approval windows
  nextWin,          \* id of the next window createWindow makes
  listeners,        \* windows.onRemoved listeners: set of [id, win]
  lsCalls,          \* listener invocations awaiting isLocked: set of [id, win]
  tokens,           \* the token store: per token, the visibility of its entries
  added,            \* the token entries created for a request: set of [token, id]
  envelope,         \* an error on its way from the catch block to the handle
  invoked,          \* per id: how often its resolve or reject callback was invoked
  issued,           \* every id assigned, in order: sequence of [id, inst, wait]
  restarts,         \* number of restarts so far
  emptyRestart,     \* some restart found no persisted request
  last              \* what the last step did that a caller can observe

vars ==
  <<consentRequests, waits, nextId, initPc, store, badge, rcCalls, prCalls,
    clCalls, grCalls, windows, nextWin, listeners, lsCalls, tokens, added,
    envelope, invoked, issued, restarts, emptyRestart, last>>

Ids ==
  0..(MaxRequests + SeqRequests + SurfaceRequests + DismissRequests
        + DispatchRequests)

\* the tokens a WATCH_ASSET payload names
Tokens == {"tokenA", "tokenB"}
\* a token store without entries
NoTokens == [t \in Tokens |-> <<>>]

(* ---------------------------- helpers --------------------------------- *)
One(c) == SetToBag({c})
Move(B, c, d) == (B (-) One(c)) (+) One(d)

IdsOf(q) == {q[i].id : i \in 1..Len(q)}

RECURSIVE SeqFilter(_, _)
\* Array.prototype.filter with the predicate "id not in removedSet"
SeqFilter(q, removedSet) ==
  IF q = <<>> THEN <<>>
  ELSE IF Head(q).id \in removedSet
       THEN SeqFilter(Tail(q), removedSet)
       ELSE <<Head(q)>> \o SeqFilter(Tail(q), removedSet)

\* Array.prototype.findIndex(({id}) => req.id === id), 1-based, 0 for -1
FindIndex(q, id) ==
  IF \E i \in 1..Len(q) : q[i].id = id
  THEN CHOOSE i \in 1..Len(q) :
         q[i].id = id /\ \A j \in 1..(i - 1) : q[j].id # id
  ELSE 0

\* Array.prototype.splice(index, 1) at the 1-based position i
SpliceOut(q, i) == SubSeq(q, 1, i - 1) \o SubSeq(q, i + 1, Len(q))

RECURSIVE Decimal(_)
\* Number-to-string conversion (length + ''): the decimal digits
Decimal(n) == IF n < 10 THEN <<n>> ELSE Decimal(n \div 10) \o <<n % 10>>

\* the text setBadge gives to browser.action.setBadgeText; '' is <<>>
BadgeText(q) == IF Len(q) = 0 THEN <<>> ELSE Decimal(Len(q))

\* a variant that writes the queue as it was before the mutation: Durability
\* tells it apart
WrittenStale(q) == Stored(consentRequests)

\* SESSION_STORE.set(StoreKey.CONSENT_REQUESTS, this.consentRequests): the
\* value the store holds once the queue q was handed to it
Written(q) == Stored(q)

RECURSIVE LastSameType(_, _, _)
\* the loop of addRequest: scanning from the end, the 0-based index after the
\* last entry of the type (i is the 1-based position examined), 0 if none
LastSameType(q, type, i) ==
  IF i = 0 THEN 0
  ELSE IF q[i].type = type THEN i
       ELSE LastSameType(q, type, i - 1)

\* a variant of addRequest that always pushes: TypeGrouping tells it apart
AddRequestPush(q, request) == Append(q, request)

\* a variant of addRequest that puts the request first: SameTypeOrdering
\* tells it apart
AddRequestFront(q, request) == <<request>> \o q

\* addRequest: splice(index, 0, request) when index is nonzero, else push
AddRequest(q, request) ==
  LET index == LastSameType(q, request.type, Len(q))
  IN IF index # 0
     THEN SubSeq(q, 1, index) \o <<request>> \o SubSeq(q, index + 1, Len(q))
     ELSE Append(q, request)

RECURSIVE MaxIdFrom(_, _)
\* consentRequests.map(req => req.id).reduce((maxId, id) => Math.max(maxId, id))
MaxIdFrom(q, maxId) ==
  IF q = <<>> THEN maxId
  ELSE MaxIdFrom(Tail(q), IF Head(q).id > maxId THEN Head(q).id ELSE maxId)

\* a variant that leaves the counter where it is: IdsIncreaseWithinInstance
\* tells it apart
IdAfterSame(n) == n

\* this.nextId++: the counter after an id was taken
IdAfter(n) == n + 1

\* a variant that takes the id of the last entry for the greatest:
\* RestartRecovery tells it apart
RecoveredNextIdLast(q) == q[Len(q)].id + 1

\* a variant that takes the number of restored entries for the next id:
\* OneEntryPerId tells it apart
RecoveredNextIdCount(q) == Len(q)

\* the constructor's lastId + 1
RecoveredNextId(q) == MaxIdFrom(Tail(q), Head(q).id) + 1

\* a variant of the gate without the canWalletSign check:
\* AdmissionShortCircuit tells it apart
AdmissionUnchecked(type, accountIsList, canSign) ==
  IF type \in SigningTypes /\ accountIsList THEN "assertion" ELSE "ok"

\* the admission gate of requestConsent: "ok", or the failure it raises
Admission(type, accountIsList, canSign) ==
  IF type \in SigningTypes
  THEN IF accountIsList THEN "assertion"
       ELSE IF ~canSign THEN "userRejected"
       ELSE "ok"
  ELSE "ok"

\* the calls that are running: every call in flight (requestConsent,
\* processRequest, clearRequests, getRequests) except the requestConsent
\* calls parked on their completion promise
Running ==
  LET parked == {c \in BagToSet(rcCalls) : c.pc = "waiting"}
      parkedCount == BagCardinality([c \in parked |-> rcCalls[c]])
  IN BagCardinality(rcCalls) - parkedCount
       + BagCardinality(prCalls) + BagCardinality(clCalls) + grCalls

(* ---------------------------- observations ---------------------------- *)
Rejected(data) == [kind |-> "reject", data |-> data]
Resolved(data) == [kind |-> "resolve", data |-> data]
NoOutcome == [kind |-> None, data |-> Undefined]

(* ---------------------------- processRequest records ------------------ *)
\* a call in flight: the request and decision it was given, who called it
\* (the approval surface, or the onRemoved listener of window win), the step
\* it is suspended at, the local variables resolve and reject, the stages it
\* has invoked, whether its catch block ran and whether it showed the
\* 'Failed transaction' notification; the req it was given, the signedTx and
\* txHash processRequestSignTx returned, what getToken answered, and the
\* collaborator operations it has invoked
PrCallRec(req, approve, from, win) ==
  [id |-> req.id, type |-> req.type, approve |-> approve, from |-> from,
   win |-> win, pc |-> "pre", res |-> Undefined, rej |-> Undefined,
   ran |-> {}, threw |-> FALSE, notified |-> FALSE,
   req |-> req, signedTx |-> FALSE, txHash |-> FALSE, existing |-> None,
   log |-> <<>>]

NoCall == PrCallRec(NoRequest, FALSE, None, OtherWindow)

\* the service state a step started from
Snapshot ==
  [queue |-> consentRequests, waits |-> waits, nextId |-> nextId,
   store |-> store, badge |-> badge, windows |-> windows, tokens |-> tokens]
NoSnapshot ==
  [queue |-> <<>>, waits |-> {}, nextId |-> 0, store |-> NoValue,
   badge |-> <<>>, windows |-> {}, tokens |-> NoTokens]

\* the record kept in last: the operation and its type argument, the request
\* id it was about, the ids it removed, the ids whose handle it invoked and
\* with what, the processRequest call that did it, and the state it started
\* from
Event(op, arg, id, removed, settledIds, out, call) ==
  [op |-> op, arg |-> arg, id |-> id, removed |-> removed,
   settled |-> settledIds, out |-> out, call |-> call, pre |-> Snapshot]
Quiet ==
  [op |-> None, arg |-> None, id |-> NoId, removed |-> {}, settled |-> {},
   out |-> NoOutcome, call |-> NoCall, pre |-> NoSnapshot]

(* ---------------------------- initial state --------------------------- *)
\* a fresh service worker: the constructor has issued SESSION_STORE.get and
\* nothing else has run
InitService ==
  /\ consentRequests = <<>>
  /\ waits = {}
  /\ nextId = 0
  /\ initPc = "get"
  /\ badge = <<>>
  /\ rcCalls = EmptyBag
  /\ prCalls = EmptyBag
  /\ clCalls = EmptyBag
  /\ grCalls = 0
  /\ windows = {}
  /\ nextWin = 1
  /\ listeners = {}
  /\ lsCalls = {}
  /\ added = {}
  /\ invoked = [i \in Ids |-> 0]
  /\ issued = <<>>
  /\ restarts = 0
  /\ emptyRestart = FALSE
  /\ last = Quiet

\* the same on a session store never written, with no token known to the
\* token service
Init ==
  InitService /\ store = NoValue /\ tokens = NoTokens /\ envelope = NoEnvelope

(* ---------------------------- constructor ----------------------------- *)
\* the .then callback of the constructor, up to its first await or its end
CtorLoad ==
  /\ initPc = "get"
  /\ IF ~store.present
     THEN /\ store' = Stored(<<>>)
          /\ initPc' = "set"
          /\ UNCHANGED <<consentRequests, nextId, badge>>
     ELSE IF Len(store.list) = 0
     THEN /\ initPc' = "done"
          /\ UNCHANGED <<store, consentRequests, nextId, badge>>
     ELSE /\ consentRequests' = store.list
          /\ nextId' = RecoveredNextId(store.list)
          /\ badge' = BadgeText(store.list)
          /\ initPc' = "done"
          /\ UNCHANGED store
  /\ last' = Event("load", None, NoId, {}, {}, NoOutcome, NoCall)
  /\ UNCHANGED <<waits, rcCalls, prCalls, clCalls, grCalls, windows, nextWin,
                 listeners, lsCalls, tokens, added, envelope, invoked,
                 issued, restarts, emptyRestart>>

\* SESSION_STORE.set(CONSENT_REQUESTS, []) has completed: initPromise resolves
CtorStored ==
  /\ initPc = "set"
  /\ initPc' = "done"
  /\ last' = Quiet
  /\ UNCHANGED <<consentRequests, waits, nextId, store, badge, rcCalls,
                 prCalls, clCalls, grCalls, windows, nextWin, listeners,
                 lsCalls, tokens, added, envelope, invoked, issued,
                 restarts, emptyRestart>>

(* ---------------------------- requestConsent -------------------------- *)
\* a call in flight: the request and its type, waitCompleted, the await it
\* is suspended at, the id it was given and the window createWindow returned.
\* The argument ctx is fixed by the caller but read only at line 295: the
\* model draws it where the code reads it.
RcCallRec(request, wait, pc) ==
  [type |-> request.type, wait |-> wait, pc |-> pc, id |-> NoId,
   win |-> OtherWindow, request |-> request]

RcAt(c, pc) == [c EXCEPT !.pc = pc]

\* requestConsent is called: a signing type awaits the wallet lookups of the
\* admission gate, any other type awaits this.initPromise
RcCall(request, waitCompleted) ==
  /\ rcCalls' = rcCalls (+)
       One(RcCallRec(request, waitCompleted,
                     IF request.type \in SigningTypes THEN "gate" ELSE "init"))
  /\ last' = Quiet
  /\ UNCHANGED <<consentRequests, waits, nextId, initPc, store, badge,
                 prCalls, clCalls, grCalls, windows, nextWin, listeners,
                 lsCalls, tokens, added, envelope, invoked, issued,
                 restarts, emptyRestart>>

\* the admission gate decides: the call goes on to await this.initPromise,
\* or fails to its caller
RcGate(c, canSign) ==
  /\ c.pc = "gate"
  /\ LET verdict == Admission(c.type, c.request.accountId = AccountList, canSign)
     IN IF verdict = "ok"
        THEN /\ rcCalls' = Move(rcCalls, c, RcAt(c, "init"))
             /\ last' = Quiet
        ELSE /\ rcCalls' = rcCalls (-) One(c)
             /\ last' = Event("admissionFailed", c.type, NoId, {}, {},
                              Rejected(IF verdict = "userRejected"
                                       THEN UserRejected ELSE Raised("Error")),
                              NoCall)
  /\ UNCHANGED <<consentRequests, waits, nextId, initPc, store, badge,
                 prCalls, clCalls, grCalls, windows, nextWin, listeners,
                 lsCalls, tokens, added, envelope, invoked, issued,
                 restarts, emptyRestart>>

\* a variant that takes an id without awaiting this.initPromise:
\* RecoveryGate tells it apart
CanAdmitEarly(c) == c.pc = "init"

\* a variant in which admission waits until no processRequest is in flight:
\* AdmissionNotBlocked tells it apart
CanAdmitIdle(c) == c.pc = "init" /\ initPc = "done" /\ prCalls = EmptyBag

\* await this.initPromise: all that a requestConsent call waits for before
\* it takes an id
CanAdmit(c) == c.pc = "init" /\ initPc = "done"

\* initPromise is resolved: the id is assigned and addRequest runs up to its
\* await of SESSION_STORE.set
RcAdmit(c) ==
  /\ CanAdmit(c)
  /\ LET req == WithId(c.request, nextId)
     IN /\ nextId' = IdAfter(nextId)
        /\ consentRequests' = AddRequest(consentRequests, req)
        /\ store' = Written(consentRequests')
        /\ issued' = Append(issued, [id |-> nextId, inst |-> restarts,
                                     wait |-> c.wait])
        /\ rcCalls' = Move(rcCalls, c, [c EXCEPT !.pc = "stored", !.id = nextId])
        /\ last' = Event("admit", c.type, nextId, {}, {}, NoOutcome, NoCall)
  /\ UNCHANGED <<waits, initPc, badge, prCalls, clCalls, grCalls, windows,
                 nextWin, listeners, lsCalls, tokens, added, envelope,
                 invoked, restarts, emptyRestart>>

\* a variant that registers a handle for every request: OptOutOfWaiting
\* tells it apart
RegistersAlways(c) == TRUE

\* if (waitCompleted)
Registers(c) == c.wait

\* addRequest has returned: the handle is registered when waitCompleted, and
\* setBadge is called
RcRegister(c) ==
  /\ c.pc = "stored"
  /\ waits' = IF Registers(c) THEN waits \cup {c.id} ELSE waits
  /\ badge' = BadgeText(consentRequests)
  /\ rcCalls' = Move(rcCalls, c, RcAt(c, "badge"))
  /\ last' = Quiet
  /\ UNCHANGED <<consentRequests, nextId, initPc, store, prCalls, clCalls,
                 grCalls, windows, nextWin, listeners, lsCalls, tokens,
                 added, envelope, invoked, issued, restarts, emptyRestart>>

\* the end of requestConsent: await promise when waitCompleted, else return
RcFinish(B, c) == IF c.wait THEN Move(B, c, RcAt(c, "waiting")) ELSE B (-) One(c)

\* a variant that opens a surface for every context that is supplied:
\* SurfaceForExternalOnly tells it apart
OpensSurfaceAny(ctx) == ctx # "none"

\* ctx && !ctx.fromInternal
OpensSurface(ctx) == ctx # "none" /\ ctx # "internal"

\* setBadge has returned: for a context that is supplied and not internal
\* createWindow is called and gives the window w (the open approval window
\* or a new one)
RcOpen(c, ctx, w) ==
  /\ c.pc = "badge"
  /\ IF OpensSurface(ctx)
     THEN /\ w \in windows \cup {nextWin}
          /\ windows' = windows \cup {w}
          /\ nextWin' = IF w = nextWin THEN nextWin + 1 ELSE nextWin
          /\ rcCalls' = Move(rcCalls, c, [c EXCEPT !.pc = "window", !.win = w])
          /\ last' = Event("surfaceOpened", ctx, c.id, {}, {}, NoOutcome, NoCall)
     ELSE /\ rcCalls' = RcFinish(rcCalls, c)
          /\ last' = Event("surfaceSkipped", ctx, c.id, {}, {}, NoOutcome,
                           NoCall)
          /\ UNCHANGED <<windows, nextWin>>
  /\ UNCHANGED <<consentRequests, waits, nextId, initPc, store, badge,
                 prCalls, clCalls, grCalls, listeners, lsCalls, tokens,
                 added, envelope, invoked, issued, restarts, emptyRestart>>

\* setBadge has returned and createWindow, called for a context that is
\* supplied and not internal, raises: requestConsent fails to its caller
RcOpenFailed(c, ctx) ==
  /\ c.pc = "badge"
  /\ OpensSurface(ctx)
  /\ rcCalls' = rcCalls (-) One(c)
  /\ last' = Event("surfaceFailed", ctx, c.id, {}, {}, Rejected(Raised("Error")),
                   NoCall)
  /\ UNCHANGED <<consentRequests, waits, nextId, initPc, store, badge,
                 prCalls, clCalls, grCalls, windows, nextWin, listeners,
                 lsCalls, tokens, added, envelope, invoked, issued,
                 restarts, emptyRestart>>

\* createWindow has returned: the onRemoved listener of an UNLOCK request
RcListen(c) ==
  /\ c.pc = "window"
  /\ listeners' = IF c.type = "unlock"
                  THEN listeners \cup {[id |-> c.id, win |-> c.win]}
                  ELSE listeners
  /\ rcCalls' = RcFinish(rcCalls, c)
  /\ last' = Quiet
  /\ UNCHANGED <<consentRequests, waits, nextId, initPc, store, badge,
                 prCalls, clCalls, grCalls, windows, nextWin, lsCalls,
                 tokens, added, envelope, invoked, issued, restarts,
                 emptyRestart>>

\* the promise awaited at the end of requestConsent has been settled
RcReturn(c) ==
  /\ c.pc = "waiting"
  /\ invoked[c.id] > 0
  /\ rcCalls' = rcCalls (-) One(c)
  /\ last' = Quiet
  /\ UNCHANGED <<consentRequests, waits, nextId, initPc, store, badge,
                 prCalls, clCalls, grCalls, windows, nextWin, listeners,
                 lsCalls, tokens, added, envelope, invoked, issued,
                 restarts, emptyRestart>>

(* ---------------------------- settlement ------------------------------ *)
\* processRequest's catch block: Object.getOwnPropertyNames(err).reduce(...)
\* copies the own properties (message, stack, code) of an Error to an object
Flatten(err) ==
  IF err.kind = "Error" THEN [kind |-> "object", msg |-> err.msg] ELSE err

\* if (rejectData)
Truthy(v) == v.kind \notin {"nullish", "falsy"}

\* processRequestPost: new Error(rejectData['message']) with the properties
\* copied back, when 'message' in rejectData
Rebuild(rejectData) ==
  IF rejectData.msg # None
  THEN [kind |-> "Error", msg |-> rejectData.msg]
  ELSE rejectData

(* ---------------------------- getRequests ----------------------------- *)
\* getRequests is called: await this.initPromise
GrCall ==
  /\ grCalls' = grCalls + 1
  /\ last' = Quiet
  /\ UNCHANGED <<consentRequests, waits, nextId, initPc, store, badge,
                 rcCalls, prCalls, clCalls, windows, nextWin, listeners,
                 lsCalls, tokens, added, envelope, invoked, issued,
                 restarts, emptyRestart>>

\* initPromise is resolved: getRequests returns this.consentRequests
GrReturn ==
  /\ grCalls > 0
  /\ initPc = "done"
  /\ grCalls' = grCalls - 1
  /\ last' = Event("getRequests", None, NoId, {}, {}, NoOutcome, NoCall)
  /\ UNCHANGED <<consentRequests, waits, nextId, initPc, store, badge,
                 rcCalls, prCalls, clCalls, windows, nextWin, listeners,
                 lsCalls, tokens, added, envelope, invoked, issued,
                 restarts, emptyRestart>>

(* ---------------------------- clearRequests --------------------------- *)
\* a variant that ignores the type argument: BulkClear tells it apart
RemovedSetAll(q, type) == IdsOf(q)

\* the ids clearRequests(type) removes; type None is the omitted argument
RemovedSet(q, type) ==
  IF type = None THEN IdsOf(q)
  ELSE {q[i].id : i \in {j \in 1..Len(q) : q[j].type = type}}

\* clearRequests is called: await this.initPromise
ClCall(type) ==
  /\ clCalls' = clCalls (+)
       One([type |-> type, pc |-> "init", removed |-> {}, rejected |-> {}])
  /\ last' = Quiet
  /\ UNCHANGED <<consentRequests, waits, nextId, initPc, store, badge,
                 rcCalls, prCalls, grCalls, windows, nextWin, listeners,
                 lsCalls, tokens, added, envelope, invoked, issued,
                 restarts, emptyRestart>>

\* the body of clearRequests up to its await of SESSION_STORE.set
ClRun(c) ==
  /\ c.pc = "init"
  /\ initPc = "done"
  /\ LET removedSet == RemovedSet(consentRequests, c.type)
         rejected == {id \in waits : id \in removedSet}
     IN /\ consentRequests' = SeqFilter(consentRequests, removedSet)
        /\ invoked' = [id \in Ids |->
                         IF id \in rejected THEN invoked[id] + 1 ELSE invoked[id]]
        /\ waits' = waits \ rejected
        /\ store' = Written(consentRequests')
        /\ clCalls' = Move(clCalls, c,
             [c EXCEPT !.pc = "stored", !.removed = removedSet,
                       !.rejected = rejected])
        /\ last' = Event("clear", c.type, NoId, removedSet, rejected,
                         Rejected(UserRejected), NoCall)
  /\ UNCHANGED <<nextId, initPc, badge, rcCalls, prCalls, grCalls, windows,
                 nextWin, listeners, lsCalls, tokens, added, envelope,
                 issued, restarts, emptyRestart>>

\* SESSION_STORE.set has completed: setBadge, and clearRequests returns
ClBadge(c) ==
  /\ c.pc = "stored"
  /\ badge' = BadgeText(consentRequests)
  /\ clCalls' = clCalls (-) One(c)
  /\ last' = Event("clearReturned", c.type, NoId, c.removed, c.rejected,
                   Rejected(UserRejected), NoCall)
  /\ UNCHANGED <<consentRequests, waits, nextId, initPc, store, rcCalls,
                 prCalls, grCalls, windows, nextWin, listeners, lsCalls,
                 tokens, added, envelope, invoked, issued, restarts,
                 emptyRestart>>

(* ---------------------------- processRequest -------------------------- *)
\* the approval surface calls processRequest on a request it displays
PrCall(req, approve) ==
  /\ prCalls' = prCalls (+) One(PrCallRec(req, approve, "ui", OtherWindow))
  /\ last' = Quiet
  /\ UNCHANGED <<consentRequests, waits, nextId, initPc, store, badge,
                 rcCalls, clCalls, grCalls, windows, nextWin, listeners,
                 lsCalls, tokens, added, envelope, invoked, issued,
                 restarts, emptyRestart>>

\* a variant that ignores approve: RejectionPath tells it apart
FirstStageApproved(c) ==
  IF c.type = "transaction" THEN "signTx" ELSE "intermediate"

\* the stage processRequest enters after processRequestPre, by its arguments
FirstStage(c) ==
  IF ~c.approve THEN "post"
  ELSE IF c.type = "transaction" THEN "signTx"
  ELSE "intermediate"

\* whether the catch block itself throws: err.toString() is evaluated for a
\* TRANSACTION and fails on undefined/null
CatchThrows(c, err) == c.type = "transaction" /\ err.kind = "nullish"

\* the catch block's condition for EXTENSION.showNotification, where it is
\* evaluated without throwing
Notifies(c, err) ==
  c.type = "transaction" /\ ~(err.kind = "Error" /\ err.msg = UserRejected.msg)

\* the call as it enters a stage
Enter(c, stage) ==
  [c EXCEPT !.pc = stage,
            !.ran = IF stage = "post" THEN @ ELSE @ \cup {stage}]

\* the catch block of processRequest for the raised value err: the
\* notification, reject = err, flattened; or processRequest ends before
\* processRequestPost
Catch(B, c, err) ==
  IF CatchThrows(c, err)
  THEN B (-) One(c)
  ELSE Move(B, c, [Enter(c, "post") EXCEPT !.rej = Flatten(err), !.threw = TRUE,
                                           !.notified = Notifies(c, err)])

\* the call c, now d, goes to the catch block with err
Settle(B, c, d, err) == Catch(Move(B, c, d), d, err)

\* processRequestPre has returned
PrPre(c) ==
  /\ c.pc = "pre"
  /\ initPc = "done"
  /\ prCalls' = IF FirstStage(c) = "post"
                THEN Catch(prCalls, c, UserRejected)
                ELSE Move(prCalls, c, Enter(c, FirstStage(c)))
  /\ last' = Quiet
  /\ UNCHANGED <<consentRequests, waits, nextId, initPc, store, badge,
                 rcCalls, clCalls, grCalls, windows, nextWin, listeners,
                 lsCalls, tokens, added, envelope, invoked, issued,
                 restarts, emptyRestart>>

CatchEvent(c, err) ==
  IF CatchThrows(c, err)
  THEN Event("processAborted", c.type, c.id, {}, {}, NoOutcome,
             [c EXCEPT !.threw = TRUE])
  ELSE Quiet

(* ---------------------------- the dispatcher -------------------------- *)
\* what the collaborators answer during one stage of a call: the operation
\* that raises (None: none does) and the value it raises, whether getNetwork
\* knows the network, whether getChainAccounts finds an account, and whether
\* polling finds the transaction
Env(fail, kind, network, accounts, found) ==
  [fail |-> fail, kind |-> kind, network |-> network, accounts |-> accounts,
   found |-> found]

\* every collaborator answers and nothing raises
Calm == Env(None, "Error", TRUE, TRUE, TRUE)

\* the answers of Spec, SpecSeq, SpecSurface and SpecDismiss: the stage
\* runs to its end unless the operation op raises one of FailureKinds
FailingAt(op) == {Calm} \cup {Env(op, k, TRUE, TRUE, TRUE) : k \in FailureKinds}

\* no error raised so far
Ok == [kind |-> "ok", msg |-> None]

\* the course of a stage: the collaborator operations invoked so far, each
\* with what it was invoked on, and the value raised, if any
Begun == [log |-> <<>>, err |-> Ok]

\* whether the operation op answers with a value: it does not raise, and
\* the network, the accounts or the transaction it looks for is there
Answers(op, env) ==
  /\ env.fail # op
  /\ op = "getNetwork" => env.network
  /\ op = "getChainAccounts" => env.accounts
  /\ op = "getTransaction" => env.found

\* await <collaborator>.<op>(on, origin): nothing when the stage has already
\* raised; else the invocation, which raises when the environment says so
Invoke(run, op, on, origin, env) ==
  IF run.err # Ok THEN run
  ELSE [log |-> Append(run.log, [op |-> op, on |-> on, origin |-> origin,
                                 ok |-> Answers(op, env)]),
        err |-> IF env.fail = op THEN Raised(env.kind) ELSE Ok]

\* assert(cond), or the dereference of a value that is defined iff cond
Require(run, cond, error) ==
  IF run.err = Ok /\ ~cond THEN [run EXCEPT !.err = error] ELSE run

\* the lookups both processRequestSignTx and processRequestIntermediate
\* start with
Lookup(req, env) ==
  LET network ==
        IF req.networkId # None
        THEN Invoke(Require(Invoke(Begun, "getNetwork", req.networkId, None, env),
                            env.network, AssertionError),
                    "getProvider", req.networkId, None, env)
        ELSE Begun
  IN IF req.accountId # None
     THEN Require(Invoke(network, "getChainAccounts", req.accountId, None, env),
                  env.accounts, AssertionError)
     ELSE network

\* whether processRequestSignTx asks the provider for a signature: the
\* (formatted) payload carries neither a signedTx nor a txHash
Signs(payload) == ~(payload.signedTx \/ payload.txHash)

\* processRequestSignTx
SignTx(req, env) ==
  LET found == Lookup(req, env)
  IN IF Signs(req.payload)
     THEN Invoke(Require(found, req.networkId # None, TypeError),
                 "signTransaction", req.accountId, None, env)
     ELSE Require(Require(found, req.networkId # None, TypeError),
                  req.networkId = "evm", AssertionError)

\* the signedTx processRequestSignTx returns when it does not raise
SignedTx(req) == req.payload.signedTx \/ Signs(req.payload)

RECURSIVE RequestPermissionAll(_, _, _, _)
\* a variant that connects the site for every permission entry, whatever it
\* names: DispatchRouting tells it apart
RequestPermissionAll(run, req, permissions, env) ==
  IF permissions = <<>> THEN run
  ELSE RequestPermissionAll(
         Invoke(run, "connectSiteWithReplace", req.accountId, req.origin, env),
         req, Tail(permissions), env)

RECURSIVE RequestPermission(_, _, _, _)
\* requestPermission: connectSiteWithReplace for every permission entry
\* that is Permission.ACCOUNT
RequestPermission(run, req, permissions, env) ==
  IF permissions = <<>> THEN run
  ELSE RequestPermission(
         IF Head(permissions) = PermissionAccount
         THEN Invoke(run, "connectSiteWithReplace", req.accountId, req.origin, env)
         ELSE run,
         req, Tail(permissions), env)

\* the outcome of a stage: its course and the value it returns
Outcome(run, res) == [log |-> run.log, err |-> run.err, res |-> res]

\* the polling of case TRANSACTION, inside try/catch, once poll has ended:
\* with a response, with nothing, or by raising, which is logged and dropped
Polled(run, req, env) ==
  IF run.err # Ok THEN run
  ELSE [Invoke(Invoke(run, "_getInternalBlockNumber", req.networkId, None, env),
               "getTransaction", req.networkId, None, env)
          EXCEPT !.err = Ok]

\* whether polling yields a transaction response
PollFinds(env) ==
  Answers("_getInternalBlockNumber", env) /\ Answers("getTransaction", env)

\* a variant that records a pending transaction whatever the broadcast or
\* the polling gave: SoftPolling tells it apart
RecordsPendingAlways(networkId, txResponse) == TRUE

\* switch (network.kind): whether addPendingTx is invoked
RecordsPending(networkId, txResponse) ==
  IF networkId = "evm" THEN txResponse ELSE networkId = "aptos"

\* case ConsentType.TRANSACTION
Transaction(found, req, signedTx, txHash, env) ==
  LET network == Require(found, req.networkId # None, TypeError)
      sent == IF signedTx
              THEN Invoke(network, "sendTransaction", req.networkId, None, env)
              ELSE Polled(Require(network, req.networkId = "evm", AssertionError),
                          req, env)
      txResponse == IF signedTx THEN TRUE ELSE PollFinds(env)
      recorded == IF RecordsPending(req.networkId, txResponse)
                  THEN Invoke(sent, "addPendingTx", req.accountId, req.origin, env)
                  ELSE sent
  IN IF txResponse
     THEN Outcome(recorded, Response)
     ELSE Outcome(Require(recorded, req.networkId = "evm", AssertionError),
                  HashOnly)

\* a variant that asks the provider although a signature is attached:
\* SignatureReplay tells it apart
ReplaysNever(payload) == FALSE

\* whether the signature attached to the payload is the response
Replays(payload) == payload.signature

\* case ConsentType.SIGN_MSG and case ConsentType.SIGN_TYPED_DATA; op is the
\* provider's signMessage or signTypedData
Sign(found, req, op, env) ==
  IF Replays(req.payload)
  THEN Outcome(found, AttachedSignature)
  ELSE Outcome(Invoke(Require(found, req.networkId # None, TypeError),
                      op, req.accountId, None, env),
               ProviderSignature)

\* processRequestIntermediate for every type but WATCH_ASSET, from the
\* lookups to the return
Dispatch(req, signedTx, txHash, env) ==
  LET found == Lookup(req, env)
  IN CASE req.type = "requestPermission" ->
            Outcome(RequestPermission(found, req, req.payload.permissions, env),
                    Undefined)
       [] req.type = "transaction" -> Transaction(found, req, signedTx, txHash, env)
       [] req.type = "signMessage" -> Sign(found, req, "signMessage", env)
       [] req.type = "signTypedData" -> Sign(found, req, "signTypedData", env)
       [] req.type = "addNetwork" ->
            Outcome(Invoke(found, "addNetwork", None, None, env), Undefined)
       [] req.type = "switchNetwork" ->
            Outcome(Invoke(Require(found, req.networkId # None, TypeError),
                           "setActiveNetwork", req.networkId, None, env),
                    Undefined)
       [] OTHER -> Outcome(found, Undefined)

\* a variant that dispatches an UNLOCK request like any other:
\* UnlockSettlement tells it apart
IntermediateAlways(req, signedTx, txHash, env) == Dispatch(req, signedTx, txHash, env)

\* processRequestIntermediate: nothing for UNLOCK, else the dispatch
Intermediate(req, signedTx, txHash, env) ==
  IF req.type = "unlock" THEN Outcome(Begun, Undefined)
  ELSE Dispatch(req, signedTx, txHash, env)

\* case ConsentType.WATCH_ASSET up to its await of TOKEN_SERVICE.getToken
WatchLookup(req, env) ==
  Invoke(Lookup(req, env), "getToken", req.payload.token, None, env)

\* TOKEN_SERVICE.getToken({account, token}) on the token store T: the
\* visibility of the entry it finds, None if there is none
GetToken(T, token) == IF T[token] = <<>> THEN None ELSE T[token][1]

\* TOKEN_SERVICE.setTokenVisibility(existing.id, visible)
SetTokenVisibility(T, token, visible) == [T EXCEPT ![token][1] = visible]

\* TOKEN_SERVICE.addToken({account, token, info}): the entry it creates is
\* shown
AddToken(T, token) == [T EXCEPT ![token] = Append(@, "show")]

\* a variant without the test of the visibility: WatchAssetDispatch tells it
\* apart
AlreadyShownNever(existing) == FALSE

\* existing.visible === TokenVisibility.SHOW
AlreadyShown(existing) == existing = "show"

\* a variant that never finds the entry: WatchAssetIdempotence tells it
\* apart
WatchedNever(existing) == FALSE

\* if (existing)
Watched(existing) == existing # None

\* case ConsentType.WATCH_ASSET after getToken has answered existing
WatchApply(existing, req, env) ==
  IF Watched(existing)
  THEN IF AlreadyShown(existing)
       THEN Outcome([Begun EXCEPT !.err = InvalidRequest], Undefined)
       ELSE Outcome(Invoke(Begun, "setTokenVisibility", req.payload.token, None,
                           env), Undefined)
  ELSE Outcome(Invoke(Begun, "addToken", req.payload.token, None, env), Undefined)

\* the token store a WATCH_ASSET dispatch that ended as out leaves
WatchStore(T, out, token) ==
  IF out.err # Ok \/ out.log = <<>> THEN T
  ELSE IF out.log[1].op = "addToken" THEN AddToken(T, token)
  ELSE SetTokenVisibility(T, token, "show")

\* the call with the operations of a stage added to its log
Logged(c, log) == [c EXCEPT !.log = @ \o log]

\* processRequestSignTx returns {signedTx, txHash} or raises
PrSignTx(c, env) ==
  /\ c.pc = "signTx"
  /\ LET run == SignTx(c.req, env)
         d == Logged(c, run.log)
     IN IF run.err = Ok
        THEN /\ prCalls' = Move(prCalls, c,
                  [Enter(d, "intermediate") EXCEPT
                     !.signedTx = SignedTx(c.req), !.txHash = c.req.payload.txHash])
             /\ last' = Quiet
        ELSE /\ prCalls' = Settle(prCalls, c, d, run.err)
             /\ last' = CatchEvent(d, run.err)
  /\ UNCHANGED <<consentRequests, waits, nextId, initPc, store, badge,
                 rcCalls, clCalls, grCalls, windows, nextWin, listeners,
                 lsCalls, tokens, added, envelope, invoked, issued,
                 restarts, emptyRestart>>

\* processRequestIntermediate returns its response or raises; for
\* WATCH_ASSET, it runs up to the answer of getToken
PrIntermediate(c, env) ==
  /\ c.pc = "intermediate"
  /\ IF c.type = "watchAsset"
     THEN LET run == WatchLookup(c.req, env)
              d == Logged(c, run.log)
          IN IF run.err = Ok
             THEN /\ prCalls' = Move(prCalls, c,
                       [Enter(d, "token") EXCEPT
                          !.existing = GetToken(tokens, c.req.payload.token)])
                  /\ last' = Quiet
             ELSE /\ prCalls' = Settle(prCalls, c, d, run.err)
                  /\ last' = CatchEvent(d, run.err)
     ELSE LET out == Intermediate(c.req, c.signedTx, c.txHash, env)
              d == Logged(c, out.log)
          IN IF out.err = Ok
             THEN /\ prCalls' = Move(prCalls, c,
                                     [Enter(d, "post") EXCEPT !.res = out.res])
                  /\ last' = Quiet
             ELSE /\ prCalls' = Settle(prCalls, c, d, out.err)
                  /\ last' = CatchEvent(d, out.err)
  /\ UNCHANGED <<consentRequests, waits, nextId, initPc, store, badge,
                 rcCalls, clCalls, grCalls, windows, nextWin, listeners,
                 lsCalls, tokens, added, envelope, invoked, issued,
                 restarts, emptyRestart>>

\* getToken has answered: the rest of case WATCH_ASSET
PrToken(c, env) ==
  /\ c.pc = "token"
  /\ LET out == WatchApply(c.existing, c.req, env)
         d == Logged(c, out.log)
     IN /\ tokens' = WatchStore(tokens, out, c.req.payload.token)
        /\ added' = IF tokens' # tokens /\ out.log[1].op = "addToken"
                    THEN added \cup {[token |-> c.req.payload.token, id |-> c.id]}
                    ELSE added
        /\ prCalls' = IF out.err = Ok
                      THEN Move(prCalls, c, [Enter(d, "post") EXCEPT !.res = out.res])
                      ELSE Settle(prCalls, c, d, out.err)
        /\ last' = Event("watchAsset", c.existing, c.id, {}, {},
                         IF out.err = Ok THEN NoOutcome ELSE Rejected(out.err), d)
  /\ UNCHANGED <<consentRequests, waits, nextId, initPc, store, badge,
                 rcCalls, clCalls, grCalls, windows, nextWin, listeners,
                 lsCalls, envelope, invoked, issued, restarts,
                 emptyRestart>>

\* a variant without the index check: SecondSettlementAttempt tells it apart
PostOutcomeUnchecked(q, c) ==
  IF Truthy(c.rej)
  THEN IF c.rej.kind = "primitive" THEN "typeError" ELSE "reject"
  ELSE "resolve"

\* how processRequestPost ends for the call c on the queue q:
\* "notFound" (throws before anything), "typeError" ('message' in a
\* primitive throws after the handle was deleted), "reject" or "resolve"
PostOutcome(q, c) ==
  IF FindIndex(q, c.id) = 0 THEN "notFound"
  ELSE IF Truthy(c.rej)
       THEN IF c.rej.kind = "primitive" THEN "typeError" ELSE "reject"
       ELSE "resolve"

\* a variant that leaves the handle in this.waits: AtMostOnceSettlement
\* tells it apart
PostDeletedNone(W, q, c) == {}

\* the ids processRequestPost deletes from this.waits
PostDeleted(W, q, c) ==
  IF PostOutcome(q, c) = "notFound" THEN {} ELSE W \cap {c.id}

\* a variant that settles the request whether or not this.waits holds its
\* handle: CrashRecovery tells it apart
PostInvokedAlways(W, q, c) ==
  IF PostOutcome(q, c) \in {"reject", "resolve"} THEN {c.id} ELSE {}

\* the ids whose reject or resolve callback processRequestPost invokes
PostInvoked(W, q, c) ==
  IF PostOutcome(q, c) \in {"reject", "resolve"} THEN W \cap {c.id} ELSE {}

\* a variant that removes the entry at the head of the queue, whatever its
\* id: NoAutomaticRemoval tells it apart
PostQueueFirst(q, c) ==
  IF PostOutcome(q, c) \in {"reject", "resolve"} THEN SpliceOut(q, 1) ELSE q

\* a variant that puts the caller's copy of the request in the place of the
\* entry: QueuedImmutable tells it apart
PostQueueReplaced(q, c) ==
  IF PostOutcome(q, c) \in {"reject", "resolve"}
  THEN [q EXCEPT ![FindIndex(q, c.id)] = c.req]
  ELSE q

\* the queue processRequestPost leaves
PostQueue(q, c) ==
  IF PostOutcome(q, c) \in {"reject", "resolve"}
  THEN SpliceOut(q, FindIndex(q, c.id))
  ELSE q

\* processRequestPost up to its await of SESSION_STORE.set, or its throw
PrPost(c) ==
  /\ c.pc = "post"
  /\ LET out == PostOutcome(consentRequests, c)
         hit == PostInvoked(waits, consentRequests, c)
     IN /\ waits' = waits \ PostDeleted(waits, consentRequests, c)
        /\ invoked' = [id \in Ids |->
                         IF id \in hit THEN invoked[id] + 1 ELSE invoked[id]]
        /\ consentRequests' = PostQueue(consentRequests, c)
        /\ IF out \in {"reject", "resolve"}
           THEN /\ store' = Written(consentRequests')
                /\ prCalls' = Move(prCalls, c, [c EXCEPT !.pc = "stored"])
           ELSE /\ prCalls' = prCalls (-) One(c)
                /\ UNCHANGED store
        /\ last' = Event(out, c.type, c.id,
                         IdsOf(consentRequests) \ IdsOf(consentRequests'), hit,
                         IF out = "reject" THEN Rejected(Rebuild(c.rej))
                         ELSE IF out = "resolve" THEN Resolved(c.res)
                         ELSE NoOutcome,
                         c)
  /\ UNCHANGED <<nextId, initPc, badge, rcCalls, clCalls, grCalls, windows,
                 nextWin, listeners, lsCalls, tokens, added, envelope,
                 issued, restarts, emptyRestart>>

\* SESSION_STORE.set has completed: setBadge, and processRequest returns; the
\* listener that called it then removes itself
PrBadge(c) ==
  /\ c.pc = "stored"
  /\ badge' = BadgeText(consentRequests)
  /\ prCalls' = prCalls (-) One(c)
  /\ listeners' = IF c.from = "listener"
                  THEN listeners \ {[id |-> c.id, win |-> c.win]}
                  ELSE listeners
  /\ last' = Event("processReturned", c.type, c.id, {}, {}, NoOutcome, c)
  /\ UNCHANGED <<consentRequests, waits, nextId, initPc, store, rcCalls,
                 clCalls, grCalls, windows, nextWin, lsCalls, tokens,
                 added, envelope, invoked, issued, restarts, emptyRestart>>

(* ---------------------------- the UNLOCK listener --------------------- *)
\* a variant of the listener without the window check: UnlockDismissal tells
\* it apart
FiresAny(l, windowId) == TRUE

\* the listener l goes on for the removed window windowId, unless
\* windowId !== window.id
Fires(l, windowId) == l.win = windowId

\* browser.windows.onRemoved fires for window w: every listener whose window
\* it is calls PASSWORD_SERVICE.isLocked
WindowRemoved(w) ==
  /\ windows' = windows \ {w}
  /\ lsCalls' = lsCalls \cup {l \in listeners : Fires(l, w)}
  /\ last' = Quiet
  /\ UNCHANGED <<consentRequests, waits, nextId, initPc, store, badge,
                 rcCalls, prCalls, clCalls, grCalls, nextWin, listeners,
                 tokens, added, envelope, invoked, issued, restarts,
                 emptyRestart>>

\* isLocked has answered: processRequest(req, false) when locked, then (or
\* at once when unlocked) removeListener
LsLocked(l, locked) ==
  /\ l \in lsCalls
  /\ lsCalls' = lsCalls \ {l}
  /\ IF locked
     THEN /\ prCalls' = prCalls (+)
                          One(PrCallRec(WithId(UnlockRequest, l.id),
                                        FALSE, "listener", l.win))
          /\ last' = Event("closedLocked", "unlock", l.id, {}, {}, NoOutcome,
                           NoCall)
          /\ UNCHANGED listeners
     ELSE /\ listeners' = listeners \ {l}
          /\ last' = Event("closedUnlocked", "unlock", l.id, {}, {}, NoOutcome,
                           NoCall)
          /\ UNCHANGED prCalls
  /\ UNCHANGED <<consentRequests, waits, nextId, initPc, store, badge,
                 rcCalls, clCalls, grCalls, windows, nextWin, tokens,
                 added, envelope, invoked, issued, restarts, emptyRestart>>

(* ---------------------------- restart --------------------------------- *)
\* the service worker is stopped and started again: a new ConsentService is
\* constructed on the session store as it is, every call in flight is lost
Restart ==
  /\ restarts' = restarts + 1
  /\ emptyRestart' = (emptyRestart \/ Len(store.list) = 0)
  /\ consentRequests' = <<>>
  /\ waits' = {}
  /\ nextId' = 0
  /\ initPc' = "get"
  /\ rcCalls' = EmptyBag
  /\ prCalls' = EmptyBag
  /\ clCalls' = EmptyBag
  /\ grCalls' = 0
  /\ listeners' = {}
  /\ lsCalls' = {}
  /\ invoked' = [i \in Ids |-> 0]
  /\ last' = Event("restart", None, NoId, {}, {}, NoOutcome, NoCall)
  /\ UNCHANGED <<store, badge, windows, nextWin, tokens, added, envelope,
                 issued>>

(* ---------------------------- specifications ------------------------ *)
\* the bound on new calls: at most maxConcurrent calls run at once
MayCall(maxConcurrent) == Running < maxConcurrent

\* the bound on admissions: at most maxRequests ids are assigned in all
MayRequest(maxRequests) ==
  Len(issued) + Cardinality({c \in BagToSet(rcCalls) : c.id = NoId}) < maxRequests

\* Spec: the service with internal callers (no approval window), calls
\* interleaved at every await
Next ==
  \/ CtorLoad
  \/ CtorStored
  \/ /\ MayCall(MaxConcurrent)
     /\ MayRequest(MaxRequests)
     /\ \E request \in PlainRequests, waitCompleted \in BOOLEAN :
          RcCall(request, waitCompleted)
  \/ \E c \in BagToSet(rcCalls), canSign \in BOOLEAN : RcGate(c, canSign)
  \/ \E c \in BagToSet(rcCalls) : RcAdmit(c)
  \/ \E c \in BagToSet(rcCalls) : RcRegister(c)
  \/ \E c \in BagToSet(rcCalls) : RcOpen(c, "internal", OtherWindow)
  \/ \E c \in BagToSet(rcCalls) : RcReturn(c)
  \/ /\ MayCall(MaxConcurrent)
     /\ \E type \in RequestTypes \cup {None} : ClCall(type)
  \/ \E c \in BagToSet(clCalls) : ClRun(c)
  \/ \E c \in BagToSet(clCalls) : ClBadge(c)
  \/ /\ MayCall(MaxConcurrent)
     /\ \E i \in 1..Len(store.list), approve \in BOOLEAN :
          PrCall(store.list[i], approve)
  \/ \E c \in BagToSet(prCalls) : PrPre(c)
  \/ \E c \in BagToSet(prCalls), env \in FailingAt("signTransaction") :
        PrSignTx(c, env)
  \/ \E c \in BagToSet(prCalls), env \in FailingAt("sendTransaction") :
        PrIntermediate(c, env)
  \/ \E c \in BagToSet(prCalls) : PrPost(c)
  \/ \E c \in BagToSet(prCalls) : PrBadge(c)
  \/ /\ restarts < MaxRestarts
     /\ Restart

Spec == Init /\ [][Next]_vars

\* SpecSeq: the same service with one call running at a time, over more
\* admissions and all of RequestTypes
NextSeq ==
  \/ CtorLoad
  \/ CtorStored
  \/ /\ MayCall(1)
     /\ MayRequest(SeqRequests)
     /\ \E request \in PlainRequests, waitCompleted \in BOOLEAN :
          RcCall(request, waitCompleted)
  \/ \E c \in BagToSet(rcCalls), canSign \in BOOLEAN : RcGate(c, canSign)
  \/ \E c \in BagToSet(rcCalls) : RcAdmit(c)
  \/ \E c \in BagToSet(rcCalls) : RcRegister(c)
  \/ \E c \in BagToSet(rcCalls) : RcOpen(c, "internal", OtherWindow)
  \/ \E c \in BagToSet(rcCalls) : RcReturn(c)
  \/ /\ MayCall(1)
     /\ \E type \in RequestTypes \cup {None} : ClCall(type)
  \/ \E c \in BagToSet(clCalls) : ClRun(c)
  \/ \E c \in BagToSet(clCalls) : ClBadge(c)
  \/ /\ MayCall(1)
     /\ \E i \in 1..Len(store.list), approve \in BOOLEAN :
          PrCall(store.list[i], approve)
  \/ \E c \in BagToSet(prCalls) : PrPre(c)
  \/ \E c \in BagToSet(prCalls), env \in FailingAt("signTransaction") :
        PrSignTx(c, env)
  \/ \E c \in BagToSet(prCalls), env \in FailingAt("sendTransaction") :
        PrIntermediate(c, env)
  \/ \E c \in BagToSet(prCalls) : PrPost(c)
  \/ \E c \in BagToSet(prCalls) : PrBadge(c)
  \/ /\ restarts < SeqRestarts
     /\ Restart

SpecSeq == Init /\ [][NextSeq]_vars

\* SpecSurface: requests from external and internal callers, the
\* approval window and its onRemoved listener, calls interleaved at every
\* await
NextSurface ==
  \/ CtorLoad
  \/ CtorStored
  \/ /\ MayCall(MaxConcurrent)
     /\ MayRequest(SurfaceRequests)
     /\ \E request \in PlainRequests, waitCompleted \in BOOLEAN :
          RcCall(request, waitCompleted)
  \/ \E c \in BagToSet(rcCalls), canSign \in BOOLEAN : RcGate(c, canSign)
  \/ \E c \in BagToSet(rcCalls) : RcAdmit(c)
  \/ \E c \in BagToSet(rcCalls) : RcRegister(c)
  \/ \E c \in BagToSet(rcCalls), ctx \in Contexts, w \in 1..MaxWindows :
        RcOpen(c, ctx, w)
  \/ \E c \in BagToSet(rcCalls), ctx \in Contexts : RcOpenFailed(c, ctx)
  \/ \E c \in BagToSet(rcCalls) : RcListen(c)
  \/ \E c \in BagToSet(rcCalls) : RcReturn(c)
  \/ /\ MayCall(MaxConcurrent)
     /\ \E type \in RequestTypes \cup {None} : ClCall(type)
  \/ \E c \in BagToSet(clCalls) : ClRun(c)
  \/ \E c \in BagToSet(clCalls) : ClBadge(c)
  \/ /\ MayCall(MaxConcurrent)
     /\ \E i \in 1..Len(store.list), approve \in BOOLEAN :
          PrCall(store.list[i], approve)
  \/ \E c \in BagToSet(prCalls) : PrPre(c)
  \/ \E c \in BagToSet(prCalls), env \in FailingAt("signTransaction") :
        PrSignTx(c, env)
  \/ \E c \in BagToSet(prCalls), env \in FailingAt("sendTransaction") :
        PrIntermediate(c, env)
  \/ \E c \in BagToSet(prCalls) : PrPost(c)
  \/ \E c \in BagToSet(prCalls) : PrBadge(c)
  \/ \E w \in windows \cup {OtherWindow} : WindowRemoved(w)
  \/ \E l \in lsCalls, locked \in BOOLEAN : LsLocked(l, locked)

SpecSurface == Init /\ [][NextSurface]_vars

\* SpecDismiss: two requests from any context, each approval surface a
\* window of its own or a shared one, one caller at a time beside the
\* listeners
NextDismiss ==
  \/ CtorLoad
  \/ CtorStored
  \/ /\ MayCall(1)
     /\ MayRequest(DismissRequests)
     /\ \E request \in PlainRequests, waitCompleted \in BOOLEAN :
          RcCall(request, waitCompleted)
  \/ \E c \in BagToSet(rcCalls), canSign \in BOOLEAN : RcGate(c, canSign)
  \/ \E c \in BagToSet(rcCalls) : RcAdmit(c)
  \/ \E c \in BagToSet(rcCalls) : RcRegister(c)
  \/ \E c \in BagToSet(rcCalls), ctx \in Contexts, w \in 1..DismissWindows :
        RcOpen(c, ctx, w)
  \/ \E c \in BagToSet(rcCalls) : RcListen(c)
  \/ \E c \in BagToSet(rcCalls) : RcReturn(c)
  \/ /\ MayCall(1)
     /\ \E i \in 1..Len(store.list), approve \in BOOLEAN :
          PrCall(store.list[i], approve)
  \/ \E c \in BagToSet(prCalls) : PrPre(c)
  \/ \E c \in BagToSet(prCalls), env \in FailingAt("signTransaction") :
        PrSignTx(c, env)
  \/ \E c \in BagToSet(prCalls), env \in FailingAt("sendTransaction") :
        PrIntermediate(c, env)
  \/ \E c \in BagToSet(prCalls) : PrPost(c)
  \/ \E c \in BagToSet(prCalls) : PrBadge(c)
  \/ \E w \in windows \cup {OtherWindow} : WindowRemoved(w)
  \/ \E l \in lsCalls, locked \in BOOLEAN : LsLocked(l, locked)

SpecDismiss == Init /\ [][NextDismiss]_vars

\* the continuation of a listener's processRequest(req, false): its awaits
\* (processRequestPre, processRequestPost) are answered by the service itself
ListenerSettles ==
  \E c \in BagToSet(prCalls) : c.from = "listener" /\ (PrPre(c) \/ PrPost(c))

\* SpecDismissLive: SpecDismiss in which the processRequest a listener has
\* started is eventually run to its end
SpecDismissLive == SpecDismiss /\ WF_vars(ListenerSettles)

(* ---------------------------- SpecDispatch ---------------------------- *)
\* the operations of the collaborators the dispatcher invokes
Collaborators ==
  {"getNetwork", "getProvider", "getChainAccounts", "signTransaction",
   "sendTransaction", "_getInternalBlockNumber", "getTransaction",
   "addPendingTx", "signMessage", "signTypedData", "getToken",
   "setTokenVisibility", "addToken", "addNetwork", "setActiveNetwork",
   "connectSiteWithReplace"}

\* the answers of the collaborators in SpecDispatch: all is well; the
\* network is unknown, no account is found, or polling finds nothing; one
\* operation raises an Error; signing or broadcasting raises any value
DispatchEnvs ==
  {Calm, Env(None, "Error", FALSE, TRUE, TRUE),
   Env(None, "Error", TRUE, FALSE, TRUE), Env(None, "Error", TRUE, TRUE, FALSE)}
  \cup {Env(op, "Error", TRUE, TRUE, TRUE) : op \in Collaborators}
  \cup FailingAt("signTransaction") \cup FailingAt("sendTransaction")

\* the requests the callers of SpecDispatch submit: one or more of every
\* ConsentType; an UNLOCK request with and without a network and an account
DispatchedRequests ==
  {UnlockRequest,
   ConsentRequest(NoId, "unlock", "evm", OneAccount, "site", PlainPayload)}
  \cup {TransactionRequest(n, OneAccount, PlainPayload) : n \in NetworkKind}
  \cup {ConsentRequest(NoId, t, "evm", OneAccount, "site", PlainPayload) :
          t \in {"signMessage", "signTypedData", "switchNetwork", "addNetwork"}}
  \cup {ConsentRequest(NoId, "watchAsset", "evm", OneAccount, "site",
                       Payload(FALSE, FALSE, FALSE, t, <<>>)) : t \in Tokens}
  \cup {ConsentRequest(NoId, "requestPermission", "evm", AccountList, "site",
                       Payload(FALSE, FALSE, FALSE, None, p)) :
          p \in {<<PermissionAccount>>,
                 <<PermissionAccount, PermissionOther, PermissionAccount>>}}

\* the payloads the approval surface can hand to processRequest for the
\* queued request req: the payload as queued, and for a transaction or a
\* signature request the payload with a signedTx, a txHash or a signature
\* attached
Payloads(req) ==
  {req.payload}
  \cup (IF req.type = "transaction"
        THEN {[req.payload EXCEPT !.signedTx = s, !.txHash = h] :
                s \in BOOLEAN, h \in BOOLEAN}
        ELSE {})
  \cup (IF req.type \in {"signMessage", "signTypedData"}
        THEN {[req.payload EXCEPT !.signature = TRUE]}
        ELSE {})

\* the token stores SpecDispatch starts from: tokenA unknown, or known with
\* any visibility
TokenStores ==
  {[NoTokens EXCEPT !["tokenA"] = s] :
     s \in {<<>>} \cup {<<v>> : v \in TokenVisibility}}

InitDispatch ==
  /\ InitService
  /\ store = NoValue
  /\ tokens \in TokenStores
  /\ envelope = NoEnvelope

\* SpecDispatch: requests of every type from internal callers, approved or
\* rejected one call at a time, with collaborators that can fail
NextDispatch ==
  \/ CtorLoad
  \/ CtorStored
  \/ /\ MayCall(1)
     /\ MayRequest(DispatchRequests)
     /\ \E request \in DispatchedRequests, waitCompleted \in BOOLEAN :
          RcCall(request, waitCompleted)
  \/ \E c \in BagToSet(rcCalls), canSign \in BOOLEAN : RcGate(c, canSign)
  \/ \E c \in BagToSet(rcCalls) : RcAdmit(c)
  \/ \E c \in BagToSet(rcCalls) : RcRegister(c)
  \/ \E c \in BagToSet(rcCalls) : RcOpen(c, "internal", OtherWindow)
  \/ \E c \in BagToSet(rcCalls) : RcReturn(c)
  \/ /\ MayCall(1)
     /\ ClCall(None)
  \/ \E c \in BagToSet(clCalls) : ClRun(c)
  \/ \E c \in BagToSet(clCalls) : ClBadge(c)
  \/ /\ MayCall(1)
     /\ \E i \in 1..Len(store.list), approve \in BOOLEAN :
          \E payload \in Payloads(store.list[i]) :
            PrCall([store.list[i] EXCEPT !.payload = payload], approve)
  \/ \E c \in BagToSet(prCalls) : PrPre(c)
  \/ \E c \in BagToSet(prCalls), env \in DispatchEnvs : PrSignTx(c, env)
  \/ \E c \in BagToSet(prCalls), env \in DispatchEnvs : PrIntermediate(c, env)
  \/ \E c \in BagToSet(prCalls), env \in DispatchEnvs : PrToken(c, env)
  \/ \E c \in BagToSet(prCalls) : PrPost(c)
  \/ \E c \in BagToSet(prCalls) : PrBadge(c)

SpecDispatch == InitDispatch /\ [][NextDispatch]_vars

(* ---------------------------- SpecStartup ----------------------------- *)
\* the lists a service worker can find in the session store when it starts:
\* none, an empty one, and lists an earlier instance wrote (grouped by
\* type, the ids of settled requests missing)
StartupStores ==
  {NoValue, Stored(<<>>), Stored(<<WithId(UnlockRequest, 1)>>),
   Stored(<<WithId(UnlockRequest, 2),
            WithId(TransactionRequest("evm", OneAccount, PlainPayload), 1)>>)}

\* a service worker started on one of them
InitStartup ==
  /\ InitService
  /\ store \in StartupStores
  /\ tokens = NoTokens
  /\ envelope = NoEnvelope

\* the callers of SpecStartup call while the load is under way
Starting == initPc # "done"

\* SpecStartup: requestConsent, getRequests, clearRequests and processRequest
\* are invoked before the load from the session store has completed, and
\* run interleaved at every await
NextStartup ==
  \/ CtorLoad
  \/ CtorStored
  \/ /\ Starting
     /\ MayCall(StartupConcurrent)
     /\ MayRequest(StartupRequests)
     /\ \E request \in PlainRequests, waitCompleted \in BOOLEAN :
          RcCall(request, waitCompleted)
  \/ \E c \in BagToSet(rcCalls), canSign \in BOOLEAN : RcGate(c, canSign)
  \/ \E c \in BagToSet(rcCalls) : RcAdmit(c)
  \/ \E c \in BagToSet(rcCalls) : RcRegister(c)
  \/ \E c \in BagToSet(rcCalls) : RcOpen(c, "internal", OtherWindow)
  \/ \E c \in BagToSet(rcCalls) : RcReturn(c)
  \/ /\ Starting
     /\ MayCall(StartupConcurrent)
     /\ GrCall
  \/ GrReturn
  \/ /\ Starting
     /\ MayCall(StartupConcurrent)
     /\ \E type \in RequestTypes \cup {None} : ClCall(type)
  \/ \E c \in BagToSet(clCalls) : ClRun(c)
  \/ \E c \in BagToSet(clCalls) : ClBadge(c)
  \/ /\ Starting
     /\ MayCall(StartupConcurrent)
     /\ \E i \in 1..Len(store.list), approve \in BOOLEAN :
          PrCall(store.list[i], approve)
  \/ \E c \in BagToSet(prCalls) : PrPre(c)
  \/ \E c \in BagToSet(prCalls), env \in FailingAt("signTransaction") :
        PrSignTx(c, env)
  \/ \E c \in BagToSet(prCalls), env \in FailingAt("sendTransaction") :
        PrIntermediate(c, env)
  \/ \E c \in BagToSet(prCalls) : PrPost(c)
  \/ \E c \in BagToSet(prCalls) : PrBadge(c)

SpecStartup == InitStartup /\ [][NextStartup]_vars

(* ---------------------------- SpecEnvelope ---------------------------- *)
\* Object.getOwnPropertyNames(err).reduce((o, k) => {o[k] = err[k]; return o},
\* {}): a plain object with the own properties of err
OwnProperties(err) == [proto |-> "Object", inherited |-> Absent, own |-> err.own]

\* the catch block of processRequest: if (err instanceof Error) err = ...
Flattened(err) == IF InstanceOfError(err) THEN OwnProperties(err) ELSE err

\* new Error(message): an Error with its own stack, and its own message
NewError(message) == Object("Error", "", message, "new stack", Absent, Absent)

\* Object.getOwnPropertyNames(rejectData).forEach((k) => (err[k] =
\* rejectData[k])): err with every own property of rejectData set on it
Assigned(err, rejectData) ==
  [err EXCEPT !.own = [k \in DOMAIN @ |->
                         IF rejectData.own[k] # Absent THEN rejectData.own[k]
                         ELSE @[k]]]

\* processRequestPost: if ('message' in rejectData) rejectData = the Error
\* made of it
Rebuilt(rejectData) ==
  IF HasMessage(rejectData)
  THEN Assigned(NewError(Message(rejectData)), rejectData)
  ELSE rejectData

\* an error object is raised during approved processing
InitEnvelope ==
  /\ InitService
  /\ store = NoValue
  /\ tokens = NoTokens
  /\ \E err \in RaisedErrors :
        envelope = [stage |-> "raised", raised |-> err, value |-> err]

\* the catch block of processRequest: reject = err, flattened
EnvelopeCatch ==
  /\ envelope.stage = "raised"
  /\ envelope' = [envelope EXCEPT !.stage = "flattened",
                                  !.value = Flattened(envelope.value)]
  /\ UNCHANGED <<consentRequests, waits, nextId, initPc, store, badge,
                 rcCalls, prCalls, clCalls, grCalls, windows, nextWin,
                 listeners, lsCalls, tokens, added, invoked, issued,
                 restarts, emptyRestart, last>>

\* processRequestPost: reject?.(rejectData), rebuilt
EnvelopePost ==
  /\ envelope.stage = "flattened"
  /\ envelope' = [envelope EXCEPT !.stage = "rejected",
                                  !.value = Rebuilt(envelope.value)]
  /\ UNCHANGED <<consentRequests, waits, nextId, initPc, store, badge,
                 rcCalls, prCalls, clCalls, grCalls, windows, nextWin,
                 listeners, lsCalls, tokens, added, invoked, issued,
                 restarts, emptyRestart, last>>

\* SpecEnvelope: an error object on its way from the catch block of
\* processRequest to the handle processRequestPost rejects
NextEnvelope == EnvelopeCatch \/ EnvelopePost

SpecEnvelope == InitEnvelope /\ [][NextEnvelope]_vars

(* ---------------------------- properties ------------------------------ *)
\* the ways processRequestPost ends, as recorded in last.op
PostOps == {"notFound", "typeError", "reject", "resolve"}

\* the queue q without the entry that has the id
Without(q, id) == SelectSeq(q, LAMBDA r : r.id # id)

\* the greatest id in a non-empty queue
GreatestId(q) == CHOOSE m \in IdsOf(q) : \A x \in IdsOf(q) : x <= m

\* C1: a completion handle is resolved or rejected at most once, however
\* processRequest, clearRequests and the UNLOCK window listener interleave;
\* a handle a step invokes was registered before the step and is out of the
\* registry after it, and stays out.
AtMostOnceSettlement ==
  /\ \A id \in Ids : invoked[id] <= 1
  /\ last.op \in {"clear", "reject", "resolve"} =>
       \A id \in last.settled : id \in last.pre.waits /\ id \notin waits
  /\ \A id \in Ids : invoked[id] = 1 => id \notin waits

\* the listener's processRequest(req, false) finds the request already
\* settled by another path: the handle was invoked once
SettledBeforeListener ==
  /\ last.op = "notFound"
  /\ last.call.from = "listener"
  /\ invoked[last.id] = 1

\* C2: within one service instance every admitted request gets an id greater
\* than every id the instance assigned before; the counter counts the
\* admissions, and no step of processRequest or clearRequests changes it.
IdsIncreaseWithinInstance ==
  /\ \A i, j \in 1..Len(issued) :
       (i < j /\ issued[i].inst = issued[j].inst) => issued[i].id < issued[j].id
  /\ restarts = 0 /\ initPc # "get" => nextId = Len(issued)
  /\ last.op \in PostOps \cup {"clear", "clearReturned", "processAborted",
                               "processReturned"}
       => nextId = last.pre.nextId

\* a second id is assigned by the same instance after the first request was
\* removed from the queue
IdIssuedAfterRemoval ==
  /\ last.op = "admit"
  /\ Len(issued) = 2
  /\ issued[1].inst = issued[2].inst
  /\ Len(consentRequests) = 1

\* C3: when the persisted queue is non-empty at every restart, ids assigned
\* after a restart are greater than every id assigned before it.
IdsIncreaseAcrossRestart ==
  ~emptyRestart =>
    \A i, j \in 1..Len(issued) : i < j => issued[i].id < issued[j].id

\* C4: construction over a persisted non-empty list restores the list in its
\* order with nextId one more than its greatest id and writes nothing; over
\* an absent or empty value the queue is empty and nextId is 0, and an empty
\* list is written only when no value was there.
RestartRecovery ==
  last.op = "load" =>
    LET was == last.pre.store
    IN /\ was.present /\ Len(was.list) > 0 =>
            /\ consentRequests = was.list
            /\ nextId = GreatestId(was.list) + 1
            /\ store = was
            /\ initPc = "done"
       /\ was.present /\ Len(was.list) = 0 =>
            /\ consentRequests = <<>>
            /\ nextId = 0
            /\ store = was
            /\ initPc = "done"
       /\ ~was.present =>
            /\ consentRequests = <<>>
            /\ nextId = 0
            /\ store = Stored(<<>>)
            /\ initPc = "set"

\* a list of three is restored whose last entry does not hold the greatest id
RecoveredGroupedQueue ==
  /\ last.op = "load"
  /\ Len(consentRequests) = 3
  /\ consentRequests[3].id < consentRequests[2].id
  /\ nextId = 3

\* C5: an admitted request is placed right after the last queued request of
\* its type, or at the end when there is none; the other entries keep their
\* order.
TypeGrouping ==
  last.op = "admit" =>
    LET before == last.pre.queue
        sameType == {i \in 1..Len(before) : before[i].type = last.arg}
    IN /\ Len(consentRequests) = Len(before) + 1
       /\ Without(consentRequests, last.id) = before
       /\ \E p \in 1..Len(consentRequests) :
            /\ consentRequests[p].id = last.id
            /\ consentRequests[p].type = last.arg
            /\ IF sameType = {}
               THEN p = Len(consentRequests)
               ELSE /\ p - 1 \in sameType
                    /\ \A i \in sameType : i <= p - 1

\* C of [A, C, B]: a request is inserted between one of its type and a later
\* one of another type
InsertedInsideQueue ==
  /\ last.op = "admit"
  /\ Len(consentRequests) = 3
  /\ consentRequests[2].id = last.id
  /\ consentRequests[1].type = last.arg
  /\ consentRequests[3].type # last.arg

\* C6: clearRequests(type) removes exactly the queued requests of the type
\* (all of them when the type is omitted), rejects with a user-rejected error
\* exactly the registered handles of the removed requests, and leaves every
\* other request queued in its order with its handle still registered.
BulkClear ==
  last.op = "clear" =>
    LET before == last.pre.queue
        matching == {before[i].id :
                       i \in {j \in 1..Len(before) :
                                last.arg = None \/ before[j].type = last.arg}}
    IN /\ last.removed = matching
       /\ consentRequests = SelectSeq(before, LAMBDA r : r.id \notin matching)
       /\ last.settled = last.pre.waits \cap matching
       /\ last.out = Rejected(UserRejected)
       /\ waits = last.pre.waits \ matching
       /\ store = Stored(consentRequests)

\* clearRequests(TRANSACTION) on [A(tx), C(tx), B(unlock)], all with handles:
\* A and C are rejected, B stays queued and pending
ClearedOneType ==
  /\ last.op = "clear"
  /\ last.arg = "transaction"
  /\ Len(last.pre.queue) = 3
  /\ Cardinality(last.settled) = 2
  /\ Len(consentRequests) = 1
  /\ consentRequests[1].type = "unlock"
  /\ waits = {consentRequests[1].id}

\* C7: the admission gate fails exactly the signing types whose accountId is
\* a list or whose wallet cannot sign; a failed admission leaves the queue,
\* the store, nextId, the registry, the badge and the windows as they were;
\* a request of another type never stops at the gate.
AdmissionShortCircuit ==
  /\ \A type \in ConsentType, accountIsList \in BOOLEAN, canSign \in BOOLEAN :
       Admission(type, accountIsList, canSign) # "ok"
         <=> (type \in SigningTypes /\ (accountIsList \/ ~canSign))
  /\ \A c \in BagToSet(rcCalls) : c.pc = "gate" => c.type \in SigningTypes
  /\ last.op = "admissionFailed" =>
       /\ last.arg \in SigningTypes
       /\ consentRequests = last.pre.queue
       /\ store = last.pre.store
       /\ nextId = last.pre.nextId
       /\ waits = last.pre.waits
       /\ badge = last.pre.badge
       /\ windows = last.pre.windows

\* an admission fails while another request is queued with its handle
AdmissionFailedOnBusyQueue ==
  /\ last.op = "admissionFailed"
  /\ Len(consentRequests) = 1
  /\ waits # {}

\* C8: processRequest(req, false) never runs the pre-sign or the dispatch
\* stage, for any request type; on a queued request it removes the entry and
\* rejects the handle, if one is registered, with a user-rejected error.
RejectionPath ==
  /\ \A type \in ConsentType :
       FirstStage(PrCallRec([NoRequest EXCEPT !.id = 0, !.type = type], FALSE,
                            "ui", OtherWindow)) = "post"
  /\ \A c \in BagToSet(prCalls) :
       ~c.approve => c.ran = {} /\ c.pc \notin {"signTx", "intermediate"}
  /\ (last.op \in PostOps /\ ~last.call.approve
        /\ last.id \in IdsOf(last.pre.queue)) =>
       /\ last.op = "reject"
       /\ last.call.ran = {}
       /\ last.out = Rejected(UserRejected)
       /\ last.settled = last.pre.waits \cap {last.id}
       /\ last.id \notin waits
       /\ consentRequests = Without(last.pre.queue, last.id)
       /\ store = Stored(consentRequests)

\* a registered TRANSACTION request is rejected by processRequest(req, false)
TransactionRejected ==
  /\ last.op = "reject"
  /\ ~last.call.approve
  /\ last.arg = "transaction"
  /\ last.settled = {last.id}

\* C9: processRequest(req, true) on a queued request ends in one of two ways:
\* the handle is resolved with the response, or, whatever value was raised,
\* the handle is rejected with it; either way the entry leaves the queue.
ApprovalPath ==
  /\ (last.op \in {"typeError", "reject", "resolve"} /\ last.call.approve) =>
       /\ last.id \notin IdsOf(consentRequests)
       /\ last.settled = last.pre.waits \cap {last.id}
       /\ IF last.call.threw
          THEN last.op = "reject"
          ELSE last.op = "resolve" /\ last.out = Resolved(last.call.res)
  /\ last.op = "processAborted" => last.id \notin IdsOf(consentRequests)

\* C10: when clearRequests has returned, every caller of requestConsent that
\* waits for completion and whose request it removed has been rejected by it.
NoHangingWaiters ==
  last.op = "clearReturned" =>
    \A c \in BagToSet(rcCalls) :
      (c.wait /\ c.id \in last.removed) => c.id \in last.settled

Dispatched(id) ==
  LET done == {c \in BagToSet(prCalls) : c.id = id /\ c.res = Response}
  IN BagCardinality([c \in done |-> CopiesIn(c, prCalls)])

\* C12: for any request id, the side effect of the request is executed at
\* most once, however processRequest calls for the id interleave.
OneDecisionPerId == \A id \in Ids : Dispatched(id) <= 1

\* no two entries of the list q have the same id
UniqueIds(q) == \A i, j \in 1..Len(q) : i # j => q[i].id # q[j].id

\* C13: in every reachable state no two entries of the in-memory queue, and
\* no two entries of the persisted list, have the same id.
OneEntryPerId == UniqueIds(consentRequests) /\ UniqueIds(store.list)

\* a request is admitted next to a restored one, after a restart that
\* followed the removal of an earlier request
AdmittedNextToRestored ==
  /\ last.op = "admit"
  /\ restarts = 1
  /\ Len(issued) = 3
  /\ Len(consentRequests) = 2
  /\ issued[2].inst = 0
  /\ issued[3].inst = 1

\* no requestConsent, processRequest or clearRequests call is running (a
\* requestConsent parked on its completion promise has done its write)
NoCallRunning == Running = 0

\* C14: once the constructor has finished, the list stored under the
\* consent-requests key equals the in-memory queue in every state, so in
\* particular whenever no call is in flight and when a call returns; each
\* call that changed the queue returns only from a step after its write.
Durability ==
  /\ initPc = "done" => store = Stored(consentRequests)
  /\ initPc = "set" => store = Stored(<<>>) /\ consentRequests = <<>>
  /\ (NoCallRunning /\ initPc # "get") => store.list = consentRequests
  /\ last.op \in {"processReturned", "clearReturned"} =>
       /\ store.list = consentRequests
       /\ last.pre.store = store

\* clearRequests returns with no call in flight after requests were admitted
\* and one was left in the queue
QuietAfterClear ==
  /\ last.op = "clearReturned"
  /\ NoCallRunning
  /\ Len(issued) = 2
  /\ Len(consentRequests) = 1

\* the ids the running instance has assigned
IssuedHere == {issued[i].id : i \in {j \in 1..Len(issued) : issued[j].inst = restarts}}

\* the ids in the queue that the running instance restored from the store
RestoredIds == IdsOf(consentRequests) \ IssuedHere

\* the state after a crash and restart
Recovered ==
  /\ last.op = "restart" =>
       /\ consentRequests = <<>> /\ waits = {}
       /\ rcCalls = EmptyBag /\ prCalls = EmptyBag /\ clCalls = EmptyBag
  /\ (last.op = "load" /\ restarts > 0) =>
       /\ consentRequests = last.pre.store.list
       /\ store.list = last.pre.store.list
       /\ waits = {}
       /\ \A id \in Ids : invoked[id] = 0
  /\ \A id \in RestoredIds : id \notin waits
  /\ last.op \in {"reject", "resolve", "clear"} =>
       \A id \in last.removed \ IssuedHere : id \notin last.settled

\* a restored request leaves the queue only by a step of processRequestPost
\* or clearRequests that removes it (or by the next crash)
RestoredLeaves ==
  \A id \in RestoredIds :
    id \notin IdsOf(consentRequests') =>
      \/ last'.op \in {"reject", "resolve", "clear"} /\ id \in last'.removed
      \/ last'.op = "restart"

\* C15: after a crash and restart the in-memory queue is the persisted list,
\* the registry is empty and nothing was settled; a restored request has no
\* handle, and leaves the queue only through a later processRequest or
\* clearRequests, which invokes no completion handle for it.
CrashRecovery == []Recovered /\ [][RestoredLeaves]_vars

\* an approved processRequest removes a restored request: no handle is invoked
RestoredResolved ==
  /\ last.op = "resolve"
  /\ restarts = 1
  /\ last.id \notin IssuedHere
  /\ last.removed = {last.id}
  /\ last.settled = {}

\* C16: a requestConsent call that has passed the gate is admitted as soon as
\* the constructor has finished, whatever processRequest calls are suspended
\* and however many requests are queued; its admission assigns the id,
\* inserts the request and persists the queue.
AdmissionNotBlocked ==
  /\ \A c \in BagToSet(rcCalls) :
       (c.pc = "init" /\ initPc = "done") => ENABLED RcAdmit(c)
  /\ last.op = "admit" =>
       /\ last.id = last.pre.nextId
       /\ nextId = last.id + 1
       /\ last.id \in IdsOf(consentRequests)
       /\ Len(consentRequests) = Len(last.pre.queue) + 1
       /\ store = Stored(consentRequests)

\* a request is admitted while the processRequest of an earlier request is
\* suspended in signing or dispatch
AdmittedDuringDispatch ==
  /\ last.op = "admit"
  /\ Len(consentRequests) = 2
  /\ \E c \in BagToSet(prCalls) :
       c.pc \in {"signTx", "intermediate"} /\ c.id # last.id

\* in the list q, entries of one type are next to each other and in
\* ascending id order
Grouped(q) ==
  \A i, j \in 1..Len(q) :
    (i < j /\ q[i].type = q[j].type) =>
      /\ q[i].id < q[j].id
      /\ \A k \in i..j : q[k].type = q[i].type

\* C17: in every reachable state the entries of one type are contiguous in
\* the queue, and in the persisted list, and appear in ascending id order.
SameTypeOrdering == Grouped(consentRequests) /\ Grouped(store.list)

\* after a restart a request is admitted behind a restored request of its
\* type and before a restored request of another type
GroupedAfterRestart ==
  /\ last.op = "admit"
  /\ restarts = 1
  /\ Len(consentRequests) = 3
  /\ consentRequests[2].id = last.id
  /\ consentRequests[1].type = last.arg
  /\ consentRequests[3].type # last.arg
  /\ issued[2].inst = 0
  /\ issued[3].inst = 1

\* C18: requestConsent opens the approval surface exactly when its context
\* is supplied and not internal; with an internal context or none it goes
\* on without a window and without a listener, the queue and the registry as
\* they were.
SurfaceForExternalOnly ==
  /\ last.op = "surfaceOpened" =>
       /\ last.arg = "external"
       /\ last.pre.windows \subseteq windows
       /\ \E c \in BagToSet(rcCalls) :
            c.id = last.id /\ c.pc = "window" /\ c.win \in windows
  /\ last.op = "surfaceSkipped" =>
       /\ last.arg \in {"none", "internal"}
       /\ windows = last.pre.windows
       /\ consentRequests = last.pre.queue
       /\ waits = last.pre.waits
       /\ \A c \in BagToSet(rcCalls) : c.id = last.id => c.pc = "waiting"
       /\ \A l \in listeners : l.id # last.id

\* a request from an internal context is queued with its handle registered
\* and no window is open
QueuedWithoutSurface ==
  /\ last.op = "surfaceSkipped"
  /\ last.arg = "internal"
  /\ last.id \in IdsOf(consentRequests)
  /\ last.id \in waits
  /\ windows = {}

\* what holds of the onRemoved listeners in every state
ListenerSafety ==
  /\ \A l \in listeners \cup lsCalls :
       \A i \in 1..Len(consentRequests) :
         consentRequests[i].id = l.id => consentRequests[i].type = "unlock"
  /\ \A l \in lsCalls : l.win \notin windows
  /\ \A c \in BagToSet(prCalls) :
       c.from = "listener" =>
         c.type = "unlock" /\ ~c.approve /\ c.win \notin windows
  /\ (last.op \in PostOps /\ last.call.from = "listener") =>
       /\ last.op \in {"reject", "notFound"}
       /\ last.op = "reject" =>
            /\ last.removed = {last.id}
            /\ consentRequests = Without(last.pre.queue, last.id)
            /\ last.settled = last.pre.waits \cap {last.id}
            /\ waits = last.pre.waits \ {last.id}
            /\ last.out = Rejected(UserRejected)
  /\ last.op = "closedUnlocked" =>
       \A c \in BagToSet(prCalls) : ~(c.from = "listener" /\ c.id = last.id)

FailedTransaction(c) ==
  /\ c.type = "transaction"
  /\ c.approve
  /\ c.threw
  /\ c.rej.msg # UserRejected.msg

\* C20: processRequest has shown the 'Failed transaction' notification
\* exactly when the request is a TRANSACTION and its approved processing
\* failed with a value that is not a user rejection.
FailureNotification ==
  /\ \A c \in BagToSet(prCalls) :
       c.pc \in {"post", "stored"} => (c.notified <=> FailedTransaction(c))
  /\ last.op = "processAborted" =>
       (last.call.notified <=> FailedTransaction(last.call))

(* ---------------------------- badge ----------------------------------- *)
\* no requestConsent, processRequest or clearRequests call is in flight and
\* the constructor has finished
NoCallInFlight ==
  /\ rcCalls = EmptyBag
  /\ prCalls = EmptyBag
  /\ clCalls = EmptyBag
  /\ initPc = "done"

\* C21: whenever no requestConsent, processRequest or clearRequests call is
\* in flight, the badge text is the decimal queue length, or the empty text
\* when the queue is empty.
BadgeReflectsQueue == NoCallInFlight => badge = BadgeText(consentRequests)

(* ---------------------------- immutability ---------------------------- *)
\* the entries of the sequence q
Entries(q) == {q[i] : i \in 1..Len(q)}

\* every entry of the queue after a step was in the queue before it, with
\* every field as it was, or is the request a requestConsent call was given,
\* with the id the step assigned, or was read from the session store by the
\* constructor; and the session store holds no entry the queue does not
EntriesKept ==
  /\ \A e \in Entries(consentRequests') :
       \/ e \in Entries(consentRequests)
       \/ /\ last'.op = "admit"
          /\ e.id = last'.id
          /\ e.id \notin IdsOf(consentRequests)
          /\ \E c \in BagToSet(rcCalls) :
               c.pc = "init" /\ c.request = [e EXCEPT !.id = NoId]
       \/ /\ last'.op = "load"
          /\ e \in Entries(store.list)
  /\ \A e \in Entries(store'.list) :
       e \in Entries(consentRequests') \cup Entries(store.list)

\* C22: from admission until removal no field of a queue entry changes:
\* requestConsent, processRequest and clearRequests only insert or remove
\* whole entries.
QueuedImmutable == [][EntriesKept]_vars

\* processRequest was given a copy of a queued request with another payload
\* and has removed that request, and another request is still queued
SettledEditedCopy ==
  /\ last.op = "resolve"
  /\ last.call.req \notin Entries(last.pre.queue)
  /\ last.removed = {last.id}
  /\ consentRequests # <<>>

(* ---------------------------- WATCH_ASSET ----------------------------- *)
\* the token store T with one more entry for token, and nothing else changed
OneMore(T, S, token) ==
  /\ Len(S[token]) = Len(T[token]) + 1
  /\ SubSeq(S[token], 1, Len(T[token])) = T[token]
  /\ \A t \in Tokens \ {token} : S[t] = T[t]

\* the token store T with the first entry of token shown, and nothing else
\* changed
Shown(T, S, token) ==
  /\ Len(S[token]) = Len(T[token])
  /\ S[token][1] = "show"
  /\ \A i \in 2..Len(T[token]) : S[token][i] = T[token][i]
  /\ \A t \in Tokens \ {token} : S[t] = T[t]

\* C23: an approved WATCH_ASSET request whose token has a visible entry
\* fails with InvalidRequest and leaves the token store as it was; with an
\* entry of any other visibility, the entry is shown and none is added; with
\* no entry, exactly one is created.
WatchAssetDispatch ==
  /\ last.op = "watchAsset" =>
       LET T == last.pre.tokens
           token == last.call.req.payload.token
       IN IF T[token] # <<>> /\ T[token][1] = "show"
          THEN last.out = Rejected(InvalidRequest) /\ tokens = T
          ELSE IF last.out # NoOutcome THEN tokens = T
          ELSE IF T[token] # <<>> THEN Shown(T, tokens, token)
          ELSE OneMore(T, tokens, token)
  /\ (last.op \in PostOps /\ last.call.type = "watchAsset"
        /\ last.call.approve /\ last.call.existing = "show")
       => last.op = "reject" /\ last.out = Rejected(InvalidRequest)
  /\ \A c \in BagToSet(prCalls) :
       c.pc = "token" => c.existing = GetToken(tokens, c.req.payload.token)

\* an approved WATCH_ASSET request has made a hidden entry visible
ShownHiddenToken ==
  /\ last.op = "watchAsset"
  /\ last.arg = "hide"
  /\ last.out = NoOutcome
  /\ tokens # last.pre.tokens

\* C24: of two WATCH_ASSET requests for the same token approved one after
\* the other, the first of which created the token entry, the second is
\* rejected with InvalidRequest and removed from the queue, and the token
\* store holds exactly one entry for the token.
WatchAssetIdempotence ==
  /\ \A a \in added : Len(tokens[a.token]) = 1
  /\ \A a \in added :
       (/\ last.op \in PostOps
        /\ last.call.type = "watchAsset"
        /\ last.call.approve
        /\ "token" \in last.call.ran
        /\ last.call.req.payload.token = a.token
        /\ last.id # a.id)
       => /\ last.op = "reject"
          /\ last.out = Rejected(InvalidRequest)
          /\ last.settled = last.pre.waits \cap {last.id}
          /\ last.removed = {last.id}
          /\ last.id \notin IdsOf(consentRequests)

\* the second of two WATCH_ASSET requests for a token has been rejected
\* after the first created the entry
WatchedTwice ==
  /\ last.op = "reject"
  /\ last.call.type = "watchAsset"
  /\ last.settled = {last.id}
  /\ \E a \in added :
       a.token = last.call.req.payload.token /\ a.id # last.id

(* ---------------------------- transactions ---------------------------- *)
\* the positions of the log of call c at which op was invoked
At(c, op) == {i \in 1..Len(c.log) : c.log[i].op = op}

\* the processRequest calls to look at: those in flight and the one that
\* has just ended
Calls == BagToSet(prCalls) \cup {last.call}

\* provider.signTransaction is invoked only for a payload with neither a
\* signedTx nor a txHash, at most once, and before any broadcast; nothing is
\* broadcast that was not signed or carried by the payload
SignedBeforeBroadcast ==
  \A c \in Calls :
    /\ At(c, "signTransaction") # {}
         => ~c.req.payload.signedTx /\ ~c.req.payload.txHash
    /\ Cardinality(At(c, "signTransaction")) <= 1
    /\ \A i \in At(c, "sendTransaction") :
         \/ c.req.payload.signedTx
         \/ \E j \in At(c, "signTransaction") : j < i

\* the approved TRANSACTION call c ended its pre-sign step with a failure of
\* provider.signTransaction
SigningFailed(c) ==
  /\ c.type = "transaction"
  /\ c.approve
  /\ c.threw
  /\ c.log # <<>>
  /\ c.log[Len(c.log)].op = "signTransaction"

\* C25: for an approved TRANSACTION, provider.signTransaction is invoked
\* before any broadcast and only when the payload carries neither a signedTx
\* nor a txHash; if signing fails, nothing is broadcast, no pending
\* transaction is recorded, the handle is rejected and the entry is removed.
PreSignOrdering ==
  /\ SignedBeforeBroadcast
  /\ \A c \in Calls :
       SigningFailed(c) =>
         At(c, "sendTransaction") = {} /\ At(c, "addPendingTx") = {}
  /\ (last.op \in PostOps \cup {"processAborted"} /\ SigningFailed(last.call))
       => /\ last.op = "reject"
          /\ last.settled = last.pre.waits \cap {last.id}
          /\ last.removed = {last.id}

\* polling for the transaction of call c has given nothing: the block
\* number or the transaction lookup raised, or no transaction was found
PollMissed(c) ==
  \E i \in At(c, "_getInternalBlockNumber") \cup At(c, "getTransaction") :
    ~c.log[i].ok

ProviderOps ==
  {"signTransaction", "sendTransaction", "signMessage", "signTypedData"}

\* the positions of the log of call c at which one of ops was invoked
AtAny(c, ops) == UNION {At(c, op) : op \in ops}

\* c is an approved call for a SIGN_MSG or SIGN_TYPED_DATA request
SigningCall(c) == c.type \in {"signMessage", "signTypedData"} /\ c.approve

\* C27: an approved SIGN_MSG or SIGN_TYPED_DATA request whose payload
\* carries a signature is resolved with exactly that signature and no
\* signing operation of the provider is invoked; otherwise signMessage,
\* respectively signTypedData, is invoked exactly once and its result is the
\* resolution value.
SignatureReplay ==
  /\ \A c \in Calls :
       SigningCall(c) =>
         /\ AtAny(c, ProviderOps) \subseteq At(c, c.type)
         /\ Cardinality(At(c, c.type)) <= 1
         /\ c.req.payload.signature => At(c, c.type) = {}
         /\ (c.pc \in {"post", "stored"} /\ ~c.threw) =>
              IF c.req.payload.signature
              THEN c.res = AttachedSignature
              ELSE c.res = ProviderSignature /\ Cardinality(At(c, c.type)) = 1
  /\ (last.op \in PostOps /\ SigningCall(last.call) /\ ~last.call.threw)
       => /\ last.op = "resolve"
          /\ last.out = Resolved(last.call.res)
          /\ last.settled = last.pre.waits \cap {last.id}

\* a request with a signature attached has been resolved with it
ReplayedSignature ==
  /\ last.op = "resolve"
  /\ SigningCall(last.call)
  /\ last.call.req.payload.signature
  /\ last.settled = {last.id}
  /\ last.out = Resolved(AttachedSignature)
  /\ last.call.log # <<>>

(* ---------------------------- routing --------------------------------- *)
\* C28: approving an UNLOCK request invokes no collaborator (no network
\* lookup, provider, account lookup, site connector, token or network
\* registry), resolves its handle with no value and removes the entry.
UnlockSettlement ==
  /\ \A c \in Calls : c.type = "unlock" => c.log = <<>> /\ c.existing = None
  /\ \A c \in Calls : (c.type = "unlock" /\ c.approve) => ~c.threw
  /\ (last.op \in PostOps /\ last.call.type = "unlock" /\ last.call.approve
        /\ last.id \in IdsOf(last.pre.queue))
       => /\ last.op = "resolve"
          /\ last.out = Resolved(Undefined)
          /\ last.settled = last.pre.waits \cap {last.id}
          /\ last.removed = {last.id}
          /\ last.id \notin IdsOf(consentRequests)
          /\ tokens = last.pre.tokens

\* an UNLOCK request that names a network and an account has been approved
\* and its handle resolved
ApprovedUnlock ==
  /\ last.op = "resolve"
  /\ last.call.type = "unlock"
  /\ last.call.req.networkId # None
  /\ last.call.req.accountId # None
  /\ last.settled = {last.id}

\* the lookups every dispatch starts with
Lookups == {"getNetwork", "getProvider", "getChainAccounts"}

\* the operations call c has invoked beyond the lookups
Effects(c) == {c.log[i].op : i \in 1..Len(c.log)} \ Lookups

\* the number of Permission.ACCOUNT entries of the permissions p
AccountEntries(p) == Cardinality({i \in 1..Len(p) : p[i] = PermissionAccount})

\* the call c has come back from processRequestIntermediate with a response
Returned(c) == c.pc \in {"post", "stored"} /\ c.approve /\ ~c.threw

\* C29: an approved REQUEST_PERMISSION request invokes connectSiteWithReplace
\* once per account-permission entry, with all of the request's accounts and
\* its origin; ADD_NETWORK invokes only the network registration;
\* SWITCH_NETWORK invokes only the active-network update, for the request's
\* network; none of the three invokes a signing or broadcast operation of a
\* provider.
DispatchRouting ==
  \A c \in Calls :
    /\ c.type \in {"requestPermission", "addNetwork", "switchNetwork"}
         => AtAny(c, ProviderOps) = {}
    /\ c.type = "requestPermission" =>
         /\ Effects(c) \subseteq {"connectSiteWithReplace"}
         /\ \A i \in At(c, "connectSiteWithReplace") :
              c.log[i].on = c.req.accountId /\ c.log[i].origin = c.req.origin
         /\ Cardinality(At(c, "connectSiteWithReplace"))
              <= AccountEntries(c.req.payload.permissions)
         /\ Returned(c) =>
              Cardinality(At(c, "connectSiteWithReplace"))
                = AccountEntries(c.req.payload.permissions)
    /\ c.type = "addNetwork" =>
         /\ Effects(c) \subseteq {"addNetwork"}
         /\ Cardinality(At(c, "addNetwork")) <= 1
         /\ Returned(c) => Cardinality(At(c, "addNetwork")) = 1
    /\ c.type = "switchNetwork" =>
         /\ Effects(c) \subseteq {"setActiveNetwork"}
         /\ \A i \in At(c, "setActiveNetwork") : c.log[i].on = c.req.networkId
         /\ Cardinality(At(c, "setActiveNetwork")) <= 1
         /\ Returned(c) => Cardinality(At(c, "setActiveNetwork")) = 1

\* a REQUEST_PERMISSION request with two account permissions and another one
\* has been approved and resolved
GrantedPermissions ==
  /\ last.op = "resolve"
  /\ last.call.type = "requestPermission"
  /\ Len(last.call.req.payload.permissions) = 3
  /\ Cardinality(At(last.call, "connectSiteWithReplace")) = 2
  /\ last.settled = {last.id}

(* ---------------------------- waitCompleted --------------------------- *)
\* the id was assigned by this instance to a request of a caller that opted
\* out of waiting (waitCompleted = false)
OptedOut(id) ==
  \E k \in 1..Len(issued) :
    issued[k].id = id /\ issued[k].inst = restarts /\ ~issued[k].wait

SettlesId(id) ==
  last'.op \in {"reject", "resolve", "typeError"} /\ last'.id = id

\* the step is the body of a clearRequests whose type argument is omitted
\* or is type
ClearsType(type) == last'.op = "clear" /\ last'.arg \in {None, type}

\* the step is a restart of the service worker, with which the instance and
\* its registry end
Restarts == last'.op = "restart"

\* every entry that is queued stays queued, and its handle registered if it
\* was, unless the step settles its id or clears its type
EntriesStay ==
  \A i \in 1..Len(consentRequests) :
    LET e == consentRequests[i]
    IN \/ /\ e \in Entries(consentRequests')
          /\ e.id \in waits => e.id \in waits'
       \/ SettlesId(e.id)
       \/ ClearsType(e.type)
       \/ Restarts

\* C31: a queue entry leaves the queue, and its handle the registry, only
\* by a processRequest for its id (the listener's included) or by a
\* clearRequests of its type; no other step of the service removes them.
NoAutomaticRemoval == [][EntriesStay]_vars

\* a clearRequests of one type has removed an entry and left an entry of
\* another type queued with its handle
ClearedAround ==
  /\ last.op = "clear"
  /\ last.arg # None
  /\ last.removed # {}
  /\ \E i \in 1..Len(consentRequests) :
        /\ consentRequests[i].type # last.arg
        /\ consentRequests[i].id \in waits

(* ---------------------------- registry and queue ---------------------- *)
\* C32: every id that has a completion handle in the registry is the id of
\* an entry currently in the queue.
RegistryWithinQueue == waits \subseteq IdsOf(consentRequests)

(* ---------------------------- rejected means not executed ------------- *)
\* the collaborator operations that are side effects of a request: signing,
\* broadcast, the pending-transaction record, site connection, token and
\* network changes
SideEffects ==
  {"signTransaction", "sendTransaction", "addPendingTx", "signMessage",
   "signTypedData", "connectSiteWithReplace", "setTokenVisibility", "addToken",
   "addNetwork", "setActiveNetwork"}

\* the side effects the call c has executed: those it invoked and that did
\* not raise
Executed(c) ==
  {c.log[i].op : i \in {j \in 1..Len(c.log) : c.log[j].ok}} \cap SideEffects

\* the ids whose handle the last step rejected with a user-rejected error:
\* by clearRequests, or by a processRequest with approve = false (the
\* approval surface's or the listener's)
UserRejectedIds ==
  IF last.op = "clear" THEN last.settled
  ELSE IF last.op = "reject" /\ ~last.call.approve THEN last.settled
  ELSE {}

\* C33: when the handle of a request is rejected with a user-rejected error
\* by a rejecting processRequest, by clearRequests or by the listener, no
\* processRequest call for that request has executed a side effect of it.
RejectedNotExecuted ==
  \A id \in UserRejectedIds :
    \A c \in Calls : c.id = id => Executed(c) = {}

(* ---------------------------- recovery gate --------------------------- *)
\* the step reads or changes the queue, the registry or the id counter: an
\* admission, a getRequests return, the body of clearRequests or
\* processRequestPost
TouchesQueue ==
  \/ consentRequests' # consentRequests
  \/ waits' # waits
  \/ nextId' # nextId
  \/ last'.op \in {"admit", "getRequests", "clear", "reject", "resolve",
                   "notFound", "typeError"}

\* the step is the constructor's installation of the persisted list
Installs == last'.op = "load"

\* a step that touches the queue is the installation or comes after it; the
\* installation finds nothing admitted and installs the persisted list as
\* it is; an admission takes an id no persisted request has and keeps every
\* persisted request queued
GatedStep ==
  /\ TouchesQueue => Installs \/ initPc = "done"
  /\ Installs =>
       /\ consentRequests = <<>> /\ waits = {} /\ nextId = 0
       /\ consentRequests' = store.list
  /\ last'.op = "admit" =>
       /\ last'.id \notin IdsOf(store.list)
       /\ Entries(store.list) \subseteq Entries(consentRequests')
       /\ Entries(store.list) \subseteq Entries(store'.list)

\* C34: requestConsent, getRequests, clearRequests and processRequest that
\* are invoked before the load from the session store has completed read or
\* change the queue only after it has completed: a request admitted during
\* startup gets an id no restored request has, and no request is lost when
\* the restored list is installed.
RecoveryGate == [][GatedStep]_vars

\* a requestConsent invoked during the load has been admitted next to the
\* restored requests, while a getRequests call invoked during the load has
\* not returned yet
AdmittedAtStartup ==
  /\ last.op = "admit"
  /\ \E e \in Entries(last.pre.queue) :
        \A i \in 1..Len(issued) : issued[i].id # e.id
  /\ Len(consentRequests) = Len(last.pre.queue) + 1
  /\ grCalls > 0

(* ---------------------------- failed requestConsent ------------------- *)
\* the ids of the requests whose requestConsent promise the last step
\* rejected: the handles a clearRequests or a processRequestPost rejected,
\* and the request whose approval surface could not be opened
FailedIds ==
  IF last.op \in {"clear", "reject"} THEN last.settled
  ELSE IF last.op = "surfaceFailed" THEN {last.id}
  ELSE {}

\* C35: whenever the promise returned by requestConsent rejects to its
\* caller (admission failure, settlement rejection, bulk clear, failure to
\* open the approval surface), the queue holds no entry for that request
\* and the registry no handle for it.
FailedLeavesNothing ==
  /\ \A id \in FailedIds : id \notin IdsOf(consentRequests) /\ id \notin waits
  /\ last.op = "admissionFailed" =>
       consentRequests = last.pre.queue /\ waits = last.pre.waits

(* ---------------------------- error envelope -------------------------- *)
\* C36: the value the handle is rejected with is an error that has the same
\* message and the same own properties (such as the code) as the error
\* object that was raised.
EnvelopeRoundTrip ==
  envelope.stage = "rejected" =>
    /\ InstanceOfError(envelope.value)
    /\ Message(envelope.value) = Message(envelope.raised)
    /\ envelope.value.own = envelope.raised.own

\* the same for the error objects whose message is a property of their own
OwnMessageRoundTrip ==
  envelope.stage = "rejected" /\ envelope.raised.own.message # Absent =>
    /\ InstanceOfError(envelope.value)
    /\ Message(envelope.value) = Message(envelope.raised)
    /\ envelope.value.own = envelope.raised.own
====
